---- MODULE Spec2Model ----
(***************************************************************************)
(* Roster fusion engine of the Showdown battle predictor (src/scraper.js). *)
(*                                                                         *)
(* JavaScript strings that the code inspects character by character        *)
(* (creature names, player names) are sequences of one-character strings,  *)
(* so that length, startsWith, indexOf and substring are computed as the   *)
(* code computes them.  Characters outside ASCII are written as one token  *)
(* ("e_acute", "male", "female").  null and '' are both the empty          *)
(* sequence: the code only ever tests names for truthiness.                *)
(***************************************************************************)
EXTENDS Integers, Sequences, FiniteSets, TLC

\* ---------------------------------------------------------------------
\* String primitives (String.prototype.* as used by scraper.js)
\* ---------------------------------------------------------------------
Null == <<>>

UpperChars == <<"A","B","C","D","E","F","G","H","I","J","K","L","M",
                "N","O","P","Q","R","S","T","U","V","W","X","Y","Z">>
LowerChars == <<"a","b","c","d","e","f","g","h","i","j","k","l","m",
                "n","o","p","q","r","s","t","u","v","w","x","y","z">>
DigitChars == {"0","1","2","3","4","5","6","7","8","9"}

IsUpper(c) == \E i \in 1..26 : UpperChars[i] = c
IsLowerC(c) == \E i \in 1..26 : LowerChars[i] = c
IsDigit(c) == c \in DigitChars
\* \w of the regular expressions
IsWordChar(c) == IsUpper(c) \/ IsLowerC(c) \/ IsDigit(c) \/ c = "_"
IsSpace(c) == c = " "

toLowerChar(c) == IF IsUpper(c) THEN LowerChars[CHOOSE i \in 1..26 : UpperChars[i] = c] ELSE c
toLowerCase(s) == [i \in 1..Len(s) |-> toLowerChar(s[i])]

\* s.substring(k) with a 0-based k
substring(s, k) == SubSeq(s, k + 1, Len(s))
\* the match of p at the 1-based position i of s
MatchAt(s, i, p) == i + Len(p) - 1 <= Len(s) /\ SubSeq(s, i, i + Len(p) - 1) = p
startsWith(s, p) == MatchAt(s, 1, p)
includes(s, p) == \E i \in 1..(Len(s) + 1) : MatchAt(s, i, p)
\* s.indexOf(c), 0-based, -1 when absent
indexOf(s, c) == IF \E i \in 1..Len(s) : s[i] = c
                 THEN (CHOOSE i \in 1..Len(s) : s[i] = c /\ \A j \in 1..(i - 1) : s[j] # c) - 1
                 ELSE -1
\* list.includes(x) / list.some(p)
inList(list, x) == \E i \in 1..Len(list) : list[i] = x

trimStart(s) == IF \A i \in 1..Len(s) : IsSpace(s[i]) THEN <<>>
                ELSE SubSeq(s, CHOOSE i \in 1..Len(s) : ~IsSpace(s[i]) /\ \A j \in 1..(i - 1) : IsSpace(s[j]), Len(s))
trimEnd(s) == IF \A i \in 1..Len(s) : IsSpace(s[i]) THEN <<>>
              ELSE SubSeq(s, 1, CHOOSE i \in 1..Len(s) : ~IsSpace(s[i]) /\ \A j \in (i + 1)..Len(s) : IsSpace(s[j]))
trim(s) == trimEnd(trimStart(s))

\* s.replace(/[cs]/g, '')
RemoveChars(s, cs) == SelectSeq(s, LAMBDA c : c \notin cs)

\* ---------------------------------------------------------------------
\* Constants of scraper.js
\* ---------------------------------------------------------------------
MAX_TEAM_SIZE == 6

DISTINCT_FORM_SUFFIXES ==
    << <<"-","A","l","o","l","a">>,
       <<"-","A","l","o","l","a","n">>,
       <<"-","G","a","l","a","r">>,
       <<"-","G","a","l","a","r","i","a","n">>,
       <<"-","H","i","s","u","i">>,
       <<"-","H","i","s","u","i","a","n">>,
       <<"-","P","a","l","d","e","a">>,
       <<"-","P","a","l","d","e","a","n">>,
       <<"-","M","e","g","a">>,
       <<"-","M","e","g","a","-","X">>,
       <<"-","M","e","g","a","-","Y">>,
       <<"-","P","r","i","m","a","l">>,
       <<"-","O","r","i","g","i","n">>,
       <<"-","T","h","e","r","i","a","n">>,
       <<"-","I","n","c","a","r","n","a","t","e">>,
       <<"-","B","l","a","c","k">>,
       <<"-","W","h","i","t","e">>,
       <<"-","R","e","s","o","l","u","t","e">>,
       <<"-","P","i","r","o","u","e","t","t","e">>,
       <<"-","A","r","i","a">>,
       <<"-","A","s","h">>,
       <<"-","U","n","b","o","u","n","d">>,
       <<"-","M","i","d","n","i","g","h","t">>,
       <<"-","D","u","s","k">>,
       <<"-","S","c","h","o","o","l">>,
       <<"-","S","t","a","r","t","e","r">>,
       <<"-","R","a","p","i","d","-","S","t","r","i","k","e">>,
       <<"-","S","i","n","g","l","e","-","S","t","r","i","k","e">>,
       <<"-","I","c","e">>,
       <<"-","S","h","a","d","o","w">>,
       <<"-","C","r","o","w","n","e","d">>,
       <<"-","E","t","e","r","n","a","m","a","x">>,
       <<"-","B","l","o","o","d","m","o","o","n">>,
       <<"-","C","o","r","n","e","r","s","t","o","n","e">>,
       <<"-","H","e","a","r","t","h","f","l","a","m","e">>,
       <<"-","W","e","l","l","s","p","r","i","n","g">>,
       <<"-","T","e","a","l">>,
       <<"-","T","e","a","l","-","T","e","r","a">>,
       <<"-","S","t","e","l","l","a","r">>,
       <<"-","L","o","w","-","K","e","y">>,
       <<"-","A","m","p","e","d">>,
       <<"-","S","e","n","s","u">>,
       <<"-","B","a","i","l","e">>,
       <<"-","P","a","u">>,
       <<"-","P","o","m","-","P","o","m">>,
       <<"-","S","a","n","d","y">>,
       <<"-","T","r","a","s","h">>,
       <<"-","H","e","a","t">>,
       <<"-","W","a","s","h">>,
       <<"-","F","r","o","s","t">>,
       <<"-","M","o","w">>,
       <<"-","F","a","n">>,
       <<"-","A","t","t","a","c","k">>,
       <<"-","D","e","f","e","n","s","e">>,
       <<"-","S","p","e","e","d">>,
       <<"-","D","u","s","k","-","M","a","n","e">>,
       <<"-","D","a","w","n","-","W","i","n","g","s">>,
       <<"-","U","l","t","r","a">>,
       <<"-","B","l","a","d","e">>,
       <<"-","S","h","i","e","l","d">>,
       <<"-","H","a","n","g","r","y">>,
       <<"-","N","o","i","c","e">>,
       <<"-","G","o","r","g","i","n","g">>,
       <<"-","R","o","a","m","i","n","g">>,
       <<"-","T","e","r","a","s","t","a","l">>,
       <<"-","S","t","e","l","l","a","r">>,
       <<"-","F","o","u","r">>,
       <<"-","T","h","r","e","e">>,
       <<"-","F","a","m","i","l","y">> >>

REGIONAL_SUFFIXES ==
    << <<"-","A","l","o","l","a">>,
       <<"-","A","l","o","l","a","n">>,
       <<"-","G","a","l","a","r">>,
       <<"-","G","a","l","a","r","i","a","n">>,
       <<"-","H","i","s","u","i">>,
       <<"-","H","i","s","u","i","a","n">>,
       <<"-","P","a","l","d","e","a">>,
       <<"-","P","a","l","d","e","a","n">> >>

COSMETIC_FORMS ==
    << <<"V","i","v","i","l","l","o","n">>,
       <<"F","l","a","b","e_acute","b","e_acute">>,
       <<"F","l","o","e","t","t","e">>,
       <<"F","l","o","r","g","e","s">>,
       <<"F","u","r","f","r","o","u">>,
       <<"M","i","n","i","o","r">>,
       <<"A","l","c","r","e","m","i","e">>,
       <<"S","i","n","i","s","t","e","a">>,
       <<"P","o","l","t","e","a","g","e","i","s","t">>,
       <<"T","a","t","s","u","g","i","r","i">>,
       <<"M","a","u","s","h","o","l","d">>,
       <<"D","u","d","u","n","s","p","a","r","c","e">>,
       <<"S","q","u","a","w","k","a","b","i","l","l","y">>,
       <<"P","o","l","t","c","h","a","g","e","i","s","t">>,
       <<"S","i","n","i","s","t","c","h","a">>,
       <<"G","a","s","t","r","o","d","o","n">>,
       <<"S","h","e","l","l","o","s">>,
       <<"D","e","e","r","l","i","n","g">>,
       <<"S","a","w","s","b","u","c","k">>,
       <<"U","n","o","w","n">> >>

hyphenatedBases ==
    << <<"H","o","-","O","h">>,
       <<"P","o","r","y","g","o","n","-","Z">>,
       <<"J","a","n","g","m","o","-","o">>,
       <<"H","a","k","a","m","o","-","o">>,
       <<"K","o","m","m","o","-","o">>,
       <<"T","a","p","u"," ","K","o","k","o">>,
       <<"T","a","p","u"," ","L","e","l","e">>,
       <<"T","a","p","u"," ","B","u","l","u">>,
       <<"T","a","p","u"," ","F","i","n","i">>,
       <<"T","y","p","e",":"," ","N","u","l","l">>,
       <<"M","r","."," ","M","i","m","e">>,
       <<"M","i","m","e"," ","J","r",".">>,
       <<"M","r","."," ","R","i","m","e">>,
       <<"N","i","d","o","r","a","n","-","F">>,
       <<"N","i","d","o","r","a","n","-","M">>,
       <<"W","o","-","C","h","i","e","n">>,
       <<"C","h","i","e","n","-","P","a","o">>,
       <<"T","i","n","g","-","L","u">>,
       <<"C","h","i","-","Y","u">>,
       <<"I","r","o","n"," ","T","r","e","a","d","s">>,
       <<"I","r","o","n"," ","B","u","n","d","l","e">>,
       <<"I","r","o","n"," ","H","a","n","d","s">>,
       <<"I","r","o","n"," ","J","u","g","u","l","i","s">>,
       <<"I","r","o","n"," ","M","o","t","h">>,
       <<"I","r","o","n"," ","T","h","o","r","n","s">>,
       <<"I","r","o","n"," ","V","a","l","i","a","n","t">>,
       <<"I","r","o","n"," ","L","e","a","v","e","s">>,
       <<"I","r","o","n"," ","B","o","u","l","d","e","r">>,
       <<"I","r","o","n"," ","C","r","o","w","n">>,
       <<"G","r","e","a","t"," ","T","u","s","k">>,
       <<"S","c","r","e","a","m"," ","T","a","i","l">>,
       <<"B","r","u","t","e"," ","B","o","n","n","e","t">>,
       <<"F","l","u","t","t","e","r"," ","M","a","n","e">>,
       <<"S","l","i","t","h","e","r"," ","W","i","n","g">>,
       <<"S","a","n","d","y"," ","S","h","o","c","k","s">>,
       <<"R","o","a","r","i","n","g"," ","M","o","o","n">>,
       <<"W","a","l","k","i","n","g"," ","W","a","k","e">>,
       <<"G","o","u","g","i","n","g"," ","F","i","r","e">>,
       <<"R","a","g","i","n","g"," ","B","o","l","t">> >>

blocked ==
    << <<"T","e","r","a"," ","T","y","p","e">>,
       <<"A","b","i","l","i","t","y",":">>,
       <<"I","t","e","m",":">>,
       <<"S","t","a","t","s",":">>,
       <<"N","o","t"," ","r","e","v","e","a","l","e","d">>,
       <<"m","o","v","e">>,
       <<"T","u","r","n">>,
       <<"T","e","a","m">>,
       <<"O","p","p","o","n","e","n","t">>,
       <<"S","w","i","t","c","h">>,
       <<"M","e","g","a"," ","E","v","o","l","u","t","i","o","n">>,
       <<"D","y","n","a","m","a","x">>,
       <<"T","e","r","a","s","t","a","l","l","i","z","e">> >>

pureStatus ==
    << <<"a","c","t","i","v","e">>,
       <<"f","a","i","n","t","e","d">>,
       <<"t","o","x">>,
       <<"p","s","n">>,
       <<"b","r","n">>,
       <<"p","a","r">>,
       <<"s","l","p">>,
       <<"f","r","z">>,
       <<"f","n","t">> >>

statusMarkers ==
    << <<"a","c","t","i","v","e">>,
       <<"f","a","i","n","t","e","d">>,
       <<"b","r","n">>,
       <<"p","a","r">>,
       <<"s","l","p">>,
       <<"f","r","z">>,
       <<"t","o","x">>,
       <<"p","s","n">>,
       <<"f","n","t">> >>


\* ---------------------------------------------------------------------
\* Name handling
\* ---------------------------------------------------------------------
\* const v = x: { e(v) : v \in {x} } computes x once, before e; Only takes
\* the value out of the one-element set
Only(S) == CHOOSE v \in S : TRUE

\* list.some(p), and the index of the first element with p (0 for none)
Some(list, P(_)) == \E i \in 1..Len(list) : P(list[i])
FirstIndex(list, P(_)) ==
    IF Some(list, P) THEN CHOOSE i \in 1..Len(list) : P(list[i]) /\ \A j \in 1..(i - 1) : ~P(list[j])
    ELSE 0

\* the last index k >= j-1 such that every character of s[j..k] satisfies P
SpanEnd(s, j, P(_)) ==
    CHOOSE k \in (j - 1)..Len(s) :
        /\ \A m \in j..k : P(s[m])
        /\ (k = Len(s) \/ ~P(s[k + 1]))

\* the first index of the run of spaces that ends just before position j
SpanStart(s, j) ==
    CHOOSE i \in 1..j : (\A m \in i..(j - 1) : IsSpace(s[m])) /\ (i = 1 \/ ~IsSpace(s[i - 1]))

\* s without the characters at the positions in D
DeleteIndexes(s, D) ==
    IF D = {} THEN s
    ELSE LET untag(kept) == [k \in 1..Len(kept) |-> kept[k][2]]
         IN  untag(SelectSeq([i \in 1..Len(s) |-> <<i, s[i]>>], LAMBDA p : p[1] \notin D))

\* s.replace(/<pat>\b/g, rep) for a pattern that ends in a word character
\* and a replacement that is the pattern without its last characters
ReplaceAtBoundary(s, pat, rep) ==
    IF Len(s) < Len(pat) THEN s
    ELSE DeleteIndexes(s, UNION { (i + Len(rep))..(i + Len(pat) - 1) :
                i \in { h \in 1..Len(s) :
                          MatchAt(s, h, pat) /\ (h + Len(pat) > Len(s) \/ ~IsWordChar(s[h + Len(pat)])) } })

\* normalizeFormSuffix(name): the four replacements, one after the other
normalizeFormSuffix(name) ==
    ReplaceAtBoundary(
        ReplaceAtBoundary(
            ReplaceAtBoundary(
                ReplaceAtBoundary(name, <<"-","A","l","o","l","a","n">>, <<"-","A","l","o","l","a">>),
                <<"-","G","a","l","a","r","i","a","n">>, <<"-","G","a","l","a","r">>),
            <<"-","H","i","s","u","i","a","n">>, <<"-","H","i","s","u","i">>),
        <<"-","P","a","l","d","e","a","n">>, <<"-","P","a","l","d","e","a">>)

\* cleaned.replace(/^[Tt]he opposing\s+/i, '')
stripOpposing(s) ==
    IF /\ Len(s) > 12
       /\ toLowerCase(SubSeq(s, 1, 12)) = <<"t","h","e"," ","o","p","p","o","s","i","n","g">>
       /\ IsSpace(s[13])
    THEN SubSeq(s, SpanEnd(s, 13, IsSpace) + 1, Len(s))
    ELSE s

\* cleaned.replace(/^[Pp]layer\s\d+'s\s+/, '')
stripPlayerN(s) ==
    IF /\ Len(s) >= 8
       /\ SubSeq(s, 1, 6) \in { <<"P","l","a","y","e","r">>, <<"p","l","a","y","e","r">> }
       /\ IsSpace(s[7])
       /\ IsDigit(s[8])
    THEN LET after(d) == IF MatchAt(s, d + 1, <<"'","s">>) /\ d + 3 <= Len(s) /\ IsSpace(s[d + 3])
                         THEN SubSeq(s, SpanEnd(s, d + 3, IsSpace) + 1, Len(s))
                         ELSE s
         IN  after(SpanEnd(s, 8, IsDigit))
    ELSE s

\* if (player && cleaned.startsWith(player + "'s ")) cleaned = cleaned.substring(player.length + 3)
stripOwner(s, player) ==
    IF player # Null /\ startsWith(s, player \o <<"'","s"," ">>)
    THEN substring(s, Len(player) + 3)
    ELSE s

\* cleaned.replace(/\s+L\d+\b/g, ''): a match is a run of spaces, "L",
\* and a run of digits that ends at a word boundary
stripLevel(s) ==
    IF Len(s) < 3 THEN s
    ELSE DeleteIndexes(s, UNION { SpanStart(s, j)..SpanEnd(s, j + 1, IsDigit) :
                j \in { h \in 2..(Len(s) - 1) :
                          /\ s[h] = "L" /\ IsSpace(s[h - 1]) /\ IsDigit(s[h + 1])
                          /\ (SpanEnd(s, h + 1, IsDigit) = Len(s)
                                \/ ~IsWordChar(s[SpanEnd(s, h + 1, IsDigit) + 1])) } })

\* cleaned.replace(new RegExp(`\\s*\\(${marker}\\)\\s*`, 'gi'), '')
stripMarker(s, marker) ==
    IF Len(s) < Len(marker) + 2 THEN s
    ELSE DeleteIndexes(s, UNION { SpanStart(s, j)..SpanEnd(s, j + Len(marker) + 2, IsSpace) :
                j \in { h \in 1..(Len(s) - Len(marker) - 1) :
                          /\ s[h] = "("
                          /\ toLowerCase(SubSeq(s, h + 1, h + Len(marker))) = marker
                          /\ s[h + Len(marker) + 1] = ")" } })

\* statusMarkers.forEach(marker => ...) for the markers from..to, in list
\* order: the first half of them, then the second half
RECURSIVE stripMarkers(_, _, _, _)
stripMarkers(s, markers, from, to) ==
    IF from > to THEN s
    ELSE IF from = to THEN stripMarker(s, markers[from])
    ELSE Only({ stripMarkers(half, markers, (from + to) \div 2 + 1, to) :
                    half \in { stripMarkers(s, markers, from, (from + to) \div 2) } })

\* /^[A-Z][a-zA-Z<e_acute><e_grave>\-':\s.]+$/.test(inner)
looksLikeSpecies(inner) ==
    /\ Len(inner) >= 2
    /\ IsUpper(inner[1])
    /\ \A i \in 2..Len(inner) :
          \/ IsUpper(inner[i]) \/ IsLowerC(inner[i])
          \/ inner[i] \in {"e_acute", "e_grave", "-", "'", ":", " ", "."}

\* cleaned.match(/^(.+?)\s*\(([^)]+)\)\s*$/): <<outer, inner>>, or <<>> for
\* no match.  The inner group holds no ")", so the opening parenthesis is
\* the first one (not at the start) with no ")" between it and the last one.
parenMatch(cleaned) ==
    LET match(s) ==
            LET n == Len(s)
                Opens == { p \in 2..(n - 2) : s[p] = "(" /\ \A q \in (p + 1)..(n - 1) : s[q] # ")" }
                groups(p) == << trimEnd(SubSeq(s, 1, p - 1)), SubSeq(s, p + 1, n - 1) >>
            IN  IF n >= 4 /\ s[n] = ")" /\ Opens # {}
                THEN groups(CHOOSE x \in Opens : \A y \in Opens : x <= y)
                ELSE <<>>
    IN  match(trimEnd(cleaned))

\* "Nickname (RealName)" -> "RealName"; "(M)", "(F)" and other remarks keep the outer text
resolveNickname(cleaned) ==
    LET pick(outer, inner) ==
            IF inner = <<"M">> \/ inner = <<"F">> THEN outer
            ELSE IF looksLikeSpecies(inner) /\ ~inList(pureStatus, toLowerCase(inner)) THEN inner
            ELSE outer
        choose(m) == IF m = <<>> THEN cleaned ELSE pick(trim(m[1]), trim(m[2]))
    IN  choose(parenMatch(cleaned))

\* DISTINCT_FORM_SUFFIXES.some(ds => suffix === ds || suffix.startsWith(ds))
isDistinct(suffix) == Some(DISTINCT_FORM_SUFFIXES, LAMBDA ds : suffix = ds \/ startsWith(suffix, ds))

\* the body of the COSMETIC_FORMS loop for the first base the name extends
\* (the loop breaks there); hit = 0 when the name extends no base
cosmeticBase(cleaned, forms, hit) ==
    IF hit = 0 THEN cleaned
    ELSE IF isDistinct(substring(cleaned, Len(forms[hit]))) THEN cleaned
    ELSE forms[hit]

\* the COSMETIC_FORMS loop
mergeCosmetic(cleaned) ==
    cosmeticBase(cleaned, COSMETIC_FORMS,
                 FirstIndex(COSMETIC_FORMS, LAMBDA base : startsWith(cleaned, base \o <<"-">>) /\ cleaned # base))

TypeNull == <<"T","y","p","e",":"," ","N","u","l","l">>
LostInfix == <<" ","l","o","s","t"," ">>
HealthInfix == <<" ","h","e","a","l","t","h">>

\* if (cleaned !== 'Type: Null') cleaned = cleaned.replace(/[:!]/g, '').trim()
stripColons(cleaned) ==
    IF cleaned # TypeNull THEN trim(RemoveChars(cleaned, {":", "!"})) ELSE cleaned

\* the final checks of cleanPokemonName
lengthCheck(cleaned) ==
    IF Len(cleaned) < 2 THEN <<>>
    ELSE IF includes(cleaned, LostInfix) \/ includes(cleaned, HealthInfix) THEN <<>>
    ELSE cleaned

\* cleanPokemonName after the trim of line 298
cleanTrimmed(cleaned, myName, opponentName) ==
    IF Some(blocked, LAMBDA b : cleaned = b \/ startsWith(cleaned, b \o <<":">>)) THEN <<>>
    ELSE IF inList(pureStatus, toLowerCase(cleaned)) THEN <<>>
    ELSE Only({ lengthCheck(s12) :
            s12 \in { stripColons(s11) :
            s11 \in { mergeCosmetic(s10) :
            s10 \in { normalizeFormSuffix(s9) :
            s9 \in { trim(s8) :
            s8 \in { resolveNickname(s7) :
            s7 \in { stripMarkers(s6, statusMarkers, 1, Len(statusMarkers)) :
            s6 \in { RemoveChars(s5, {"male", "female"}) :
            s5 \in { stripLevel(s4) :
            s4 \in { stripOwner(s3, opponentName) :
            s3 \in { stripOwner(s2, myName) :
            s2 \in { stripPlayerN(s1) :
            s1 \in { stripOpposing(cleaned) } } } } } } } } } } } } })

\* cleanPokemonName(name), which also reads state.myName and state.opponentName
cleanPokemonName(name, myName, opponentName) ==
    IF name = Null THEN <<>>
    ELSE Only({ cleanTrimmed(cleaned, myName, opponentName) : cleaned \in { trim(name) } })

\* getBaseName(name): the species name without form suffixes
getBaseName(name) ==
    IF name = Null THEN <<>>
    ELSE IF indexOf(name, "-") = -1 THEN name
    ELSE LET base(hit) == IF hit # 0 THEN hyphenatedBases[hit] ELSE SubSeq(name, 1, indexOf(name, "-"))
         IN  base(FirstIndex(hyphenatedBases, LAMBDA hb : name = hb \/ startsWith(name, hb \o <<"-">>)))

isRegional(suffix) == Some(REGIONAL_SUFFIXES, LAMBDA r : suffix = r \/ startsWith(suffix, r))

\* the check on the two suffixes that lets every form of a base pass
sameRegionIgnored(suffix1, suffix2, isRegional1, isRegional2) == TRUE

\* isSamePokemon, lines 419-433: the regional check on the two suffixes
sameRegion(suffix1, suffix2, isRegional1, isRegional2) ==
    IF isRegional1 # isRegional2 THEN FALSE
    ELSE IF isRegional1 /\ isRegional2 /\ suffix1 # suffix2 THEN FALSE
    ELSE TRUE

\* isSamePokemon, lines 413-417
sameBase(n1, n2, base1, base2) ==
    IF base1 # base2 THEN FALSE
    ELSE sameRegion(substring(n1, Len(base1)), substring(n2, Len(base2)),
                    isRegional(substring(n1, Len(base1))), isRegional(substring(n2, Len(base2))))

\* isSamePokemon, lines 408-411
sameNormalized(n1, n2) ==
    IF n1 = n2 THEN TRUE ELSE sameBase(n1, n2, getBaseName(n1), getBaseName(n2))

\* isSamePokemon(name1, name2): same creature, regional variants kept apart
isSamePokemon(name1, name2) ==
    IF name1 = Null \/ name2 = Null THEN FALSE
    ELSE IF name1 = name2 THEN TRUE
    ELSE sameNormalized(normalizeFormSuffix(name1), normalizeFormSuffix(name2))

\* ---------------------------------------------------------------------
\* Knowledge base (POKEMON_DATA and lookupPokemon; data/move_data.js)
\* ---------------------------------------------------------------------
\* The records of POKEMON_DATA, in file order, whose key is a prefix or an
\* extension of a creature name used below; no other key can match them.
\* Each record is given with the first of its common sets: that set has
\* four moves, so no later set is ever read.
POKEMON_DATA ==
    << [ key |-> <<"D","r","a","g","a","p","u","l","t">>,
         types |-> <<"Dragon", "Ghost">>,
         baseStats |-> [hp |-> 88, atk |-> 120, def |-> 75, spa |-> 100, spd |-> 75, spe |-> 142],
         abilities |-> <<"Clear Body", "Infiltrator", "Cursed Body">>,
         commonSets |-> << [ item |-> "Choice Specs",
                             moves |-> <<"Shadow Ball", "Draco Meteor", "Flamethrower", "U-turn">> ] >> ],
       [ key |-> <<"H","e","a","t","r","a","n">>,
         types |-> <<"Fire", "Steel">>,
         baseStats |-> [hp |-> 91, atk |-> 90, def |-> 106, spa |-> 130, spd |-> 106, spe |-> 77],
         abilities |-> <<"Flash Fire", "Flame Body">>,
         commonSets |-> << [ item |-> "Leftovers",
                             moves |-> <<"Magma Storm", "Earth Power", "Stealth Rock", "Toxic">> ] >> ],
       [ key |-> <<"T","o","x","a","p","e","x">>,
         types |-> <<"Poison", "Water">>,
         baseStats |-> [hp |-> 50, atk |-> 63, def |-> 152, spa |-> 53, spd |-> 142, spe |-> 35],
         abilities |-> <<"Regenerator", "Merciless">>,
         commonSets |-> << [ item |-> "Rocky Helmet",
                             moves |-> <<"Scald", "Recover", "Toxic Spikes", "Haze">> ] >> ],
       [ key |-> <<"G","a","r","c","h","o","m","p">>,
         types |-> <<"Dragon", "Ground">>,
         baseStats |-> [hp |-> 108, atk |-> 130, def |-> 95, spa |-> 80, spd |-> 85, spe |-> 102],
         abilities |-> <<"Rough Skin", "Sand Veil">>,
         commonSets |-> << [ item |-> "Rocky Helmet",
                             moves |-> <<"Earthquake", "Dragon Claw", "Stealth Rock", "Toxic">> ] >> ],
       [ key |-> <<"W","e","a","v","i","l","e">>,
         types |-> <<"Dark", "Ice">>,
         baseStats |-> [hp |-> 70, atk |-> 120, def |-> 65, spa |-> 45, spd |-> 85, spe |-> 125],
         abilities |-> <<"Pressure", "Pickpocket">>,
         commonSets |-> << [ item |-> "Choice Band",
                             moves |-> <<"Triple Axel", "Knock Off", "Ice Shard", "Low Kick">> ] >> ],
       [ key |-> <<"B","l","i","s","s","e","y">>,
         types |-> <<"Normal">>,
         baseStats |-> [hp |-> 255, atk |-> 10, def |-> 10, spa |-> 75, spd |-> 135, spe |-> 55],
         abilities |-> <<"Natural Cure", "Serene Grace">>,
         commonSets |-> << [ item |-> "Heavy-Duty Boots",
                             moves |-> <<"Soft-Boiled", "Seismic Toss", "Stealth Rock", "Toxic">> ] >> ],
       [ key |-> <<"U","r","s","h","i","f","u","-","R","a","p","i","d","-","S","t","r","i","k","e">>,
         types |-> <<"Fighting", "Water">>,
         baseStats |-> [hp |-> 100, atk |-> 130, def |-> 100, spa |-> 63, spd |-> 60, spe |-> 97],
         abilities |-> <<"Unseen Fist">>,
         commonSets |-> << [ item |-> "Choice Band",
                             moves |-> <<"Surging Strikes", "Close Combat", "Aqua Jet", "U-turn">> ] >> ],
       [ key |-> <<"U","r","s","h","i","f","u">>,
         types |-> <<"Fighting", "Dark">>,
         baseStats |-> [hp |-> 100, atk |-> 130, def |-> 100, spa |-> 63, spd |-> 60, spe |-> 97],
         abilities |-> <<"Unseen Fist">>,
         commonSets |-> << [ item |-> "Choice Band",
                             moves |-> <<"Wicked Blow", "Close Combat", "Sucker Punch", "U-turn">> ] >> ] >>

\* lookupPokemon(name): <<record>> when found, <<>> for null
lookupPokemon(name) ==
    IF name = Null THEN <<>>
    ELSE LET found(data, direct, nocase, partial) ==
                 IF direct # 0 THEN << data[direct] >>
                 ELSE IF nocase # 0 THEN << data[nocase] >>
                 ELSE IF partial # 0 THEN << data[partial] >>
                 ELSE <<>>
             search(data, cleaned, lower) ==
                 found(data,
                       FirstIndex(data, LAMBDA d : d.key = cleaned),
                       FirstIndex(data, LAMBDA d : toLowerCase(d.key) = lower),
                       FirstIndex(data, LAMBDA d : \/ startsWith(toLowerCase(d.key), lower)
                                                   \/ startsWith(lower, toLowerCase(d.key))))
             lookup(cleaned) == search(POKEMON_DATA, cleaned, toLowerCase(cleaned))
         IN  lookup(trim(name))

\* lookupMove(name) never returns null for a non-empty name: an unknown
\* name gets a placeholder record.  Only its truthiness is read here.
lookupMoveFound(name) == name # Null

\* ---------------------------------------------------------------------
\* Team management.  A team is the object's entries in key order (the
\* insertion order of Object.keys); the key of an entry is its name field.
\* ---------------------------------------------------------------------
NoStats == [s \in {} |-> 0]
NoBoosts == [atk |-> 0, def |-> 0, spa |-> 0, spd |-> 0, spe |-> 0]

Keys(team) == { team[i].name : i \in 1..Len(team) }
HasKey(team, key) == \E i \in 1..Len(team) : team[i].name = key
KeyIndex(team, key) == CHOOSE i \in 1..Len(team) : team[i].name = key
Get(team, key) == team[KeyIndex(team, key)]
\* delete team[key]
Delete(team, key) == SelectSeq(team, LAMBDA e : e.name # key)
\* team[key] = entry: in place when the key exists, else appended
Put(team, entry) ==
    IF HasKey(team, entry.name) THEN [team EXCEPT ![KeyIndex(team, entry.name)] = entry]
    ELSE Append(team, entry)

TeamOf(st, sel) == IF sel = "my" THEN st.myTeam ELSE st.opponentTeam
OtherSel(sel) == IF sel = "my" THEN "opp" ELSE "my"
WithTeam(st, sel, team) ==
    IF sel = "my" THEN [st EXCEPT !.myTeam = team] ELSE [st EXCEPT !.opponentTeam = team]

\* findInTeam that knows exact keys only
findInTeamExact(team, name) ==
    IF name # Null /\ HasKey(team, name) THEN name ELSE Null

\* findInTeam(team, name): the key of the creature in the team, or null
findInTeam(team, name) ==
    IF name = Null THEN Null
    ELSE IF HasKey(team, name) THEN name
    ELSE IF normalizeFormSuffix(name) # name /\ HasKey(team, normalizeFormSuffix(name))
         THEN normalizeFormSuffix(name)
    ELSE LET same(hit) == IF hit # 0 THEN team[hit].name ELSE Null
         IN  same(FirstIndex(team, LAMBDA e : isSamePokemon(e.name, name)))

\* ensureTeamMember, lines 573-592: a new entry
createMember(st, sel, name) ==
    LET entry(baseData) ==
            [ name |-> name,
              hp |-> 100,
              ability |-> IF baseData # <<>> THEN baseData[1].abilities[1] ELSE "",
              item |-> "",
              teraType |-> "",
              isTerastallized |-> FALSE,
              moves |-> <<>>,
              stats |-> IF baseData # <<>> THEN baseData[1].baseStats ELSE NoStats,
              types |-> IF baseData # <<>> THEN baseData[1].types ELSE <<"???">>,
              status |-> "",
              revealed |-> TRUE,
              boosts |-> NoBoosts ]
    IN  WithTeam(st, sel, Put(TeamOf(st, sel), entry(lookupPokemon(name))))

\* a key upgrade that builds the entry of the new form from scratch
upgradeAsNew(st, sel, existingKey, name) ==
    createMember(WithTeam(st, sel, Delete(TeamOf(st, sel), existingKey)), sel, name)

\* ensureTeamMember, lines 521-539: the key is upgraded to the more specific form
upgradeMember(st, sel, existingKey, name) ==
    LET entry(oldData, baseData) ==
            [oldData EXCEPT
                !.name = name,
                !.types = IF baseData # <<>> THEN baseData[1].types ELSE oldData.types,
                !.stats = IF baseData # <<>> THEN baseData[1].baseStats ELSE oldData.stats,
                !.ability = IF oldData.ability # "" THEN oldData.ability
                            ELSE IF baseData # <<>> THEN baseData[1].abilities[1] ELSE ""]
        opponentRef(st2) == IF st2.opponentActive = existingKey THEN [st2 EXCEPT !.opponentActive = name] ELSE st2
        myRef(st1) == opponentRef(IF st1.myActive = existingKey THEN [st1 EXCEPT !.myActive = name] ELSE st1)
    IN  myRef(WithTeam(st, sel, Put(Delete(TeamOf(st, sel), existingKey),
                                    entry(Get(TeamOf(st, sel), existingKey), lookupPokemon(name)))))

\* a relocation that forgets to delete the entry of the other team
relocateKeepingOther(st, sel, existingInOther, name) ==
    WithTeam(st, sel, Put(TeamOf(st, sel), [Get(TeamOf(st, OtherSel(sel)), existingInOther) EXCEPT !.name = name]))

\* ensureTeamMember, lines 552-557: a visual source moves the entry over
relocateMember(st, sel, existingInOther, name) ==
    LET move(st1, data) == WithTeam(st1, sel, Put(TeamOf(st1, sel), [data EXCEPT !.name = name]))
    IN  move(WithTeam(st, OtherSel(sel), Delete(TeamOf(st, OtherSel(sel)), existingInOther)),
             Get(TeamOf(st, OtherSel(sel)), existingInOther))

\* the size check of lines 568-571
teamIsFull(team) == Len(team) >= MAX_TEAM_SIZE

\* ensureTeamMember, lines 543-592: the creature is not in this team
ensureInOther(st, sel, name, source, existingInOther) ==
    IF existingInOther # Null
    THEN IF source = "visual"
         THEN [st |-> relocateMember(st, sel, existingInOther, name), ret |-> name]
         ELSE [st |-> st, ret |-> Null]
    ELSE IF source # "visual" THEN [st |-> st, ret |-> Null]
    ELSE IF teamIsFull(TeamOf(st, sel)) THEN [st |-> st, ret |-> Null]
    ELSE [st |-> createMember(st, sel, name), ret |-> name]

\* ensureTeamMember, lines 515-592, with the result of findInTeam(team, name)
ensureInThis(st, sel, name, source, existingKey) ==
    IF existingKey # Null
    THEN IF name # existingKey /\ Len(name) > Len(existingKey) /\ isSamePokemon(existingKey, name)
         THEN [st |-> upgradeMember(st, sel, existingKey, name), ret |-> name]
         ELSE [st |-> st, ret |-> existingKey]
    ELSE ensureInOther(st, sel, name, source, findInTeam(TeamOf(st, OtherSel(sel)), name))

\* ensureTeamMember(team, name, source): the new state and the returned key
ensureTeamMember(st, sel, name, source) ==
    IF name = Null THEN [st |-> st, ret |-> Null]
    ELSE IF Len(name) < 2 THEN [st |-> st, ret |-> Null]
    ELSE IF includes(name, LostInfix) \/ includes(name, HealthInfix) THEN [st |-> st, ret |-> Null]
    ELSE ensureInThis(st, sel, name, source, findInTeam(TeamOf(st, sel), name))

\* a push that does not look at the list first
pushMoveAlways(moves, moveName) == Append(moves, moveName)
\* mon.moves gets the move unless it is already listed
pushMove(moves, moveName) == IF inList(moves, moveName) THEN moves ELSE Append(moves, moveName)

\* addMoveToTeam(team, pokemonName, moveName)
addMoveToTeam(st, sel, pokemonName, moveName) ==
    LET add(team, key) ==
            IF key = Null THEN st
            ELSE WithTeam(st, sel, [team EXCEPT ![KeyIndex(team, key)].moves = pushMove(@, moveName)])
    IN  add(TeamOf(st, sel), findInTeam(TeamOf(st, sel), pokemonName))


\* ---------------------------------------------------------------------
\* Battle log parser.  A log line is a record naming the narration
\* template its text is an instance of and the variable parts of the text:
\*   turn         "Turn <num>"
\*   go           "Go! <who>!"
\*   sentOut      "<owner> sent out <who>!"
\*   cameOut      "The opposing <who> came out!"
\*   move         "[The opposing ][<owner>'s ]<who> used <what>!"
\*   damage       "[The opposing ][<owner>'s ]<who> lost <num>% of its health!"
\*   tera         "[The opposing ]<who> terastallized to the <what> type!"
\*   faint        "[The opposing ]<who> fainted!"
\*   status       "[The opposing ]<who> was burned!" ... (<what> is the status code)
\*   item         "[The opposing ]<who> is holding <what>!"
\*   ability      "[<what>] of [The opposing ]<who>"
\*   trigger      "[The opposing ]<who>'s <what>" with <what> an ability of the list
\*   boost        "[The opposing ]<who>'s <what> rose!" ... (<num> is the signed number of stages)
\*   weather, terrain, the four hazards and their removal, trickRoom,
\*   tailwind: field narration naming no creature; <opposing> says the text
\*   holds the word "opposing", <owner> is a player name the text mentions,
\*   <what> the new value ("" for none).
\* <opposing> says the text starts with "The opposing ".
\* ---------------------------------------------------------------------
Line(tpl, opposing, owner, who, what, num) ==
    [tpl |-> tpl, opposing |-> opposing, owner |-> owner, who |-> who, what |-> what, num |-> num]

PossessiveS == <<"'","s"," ">>
SentOutText == <<" ","s","e","n","t"," ","o","u","t">>

SubjectTemplates == {"move", "damage", "tera", "faint", "status", "item"}
PossessiveTemplates == {"trigger", "boost"}

\* the creature text the template's (.+?) group captures
subjectText(line) ==
    IF line.owner # Null /\ line.tpl \in {"move", "damage"}
    THEN line.owner \o PossessiveS \o line.who
    ELSE line.who

\* the text the line starts with, as far as determineSide looks at it
lineStart(line) ==
    IF line.tpl = "sentOut" THEN line.owner \o SentOutText \o <<" ">> \o line.who
    ELSE IF line.tpl \in SubjectTemplates THEN subjectText(line) \o <<" ">>
    ELSE IF line.tpl \in PossessiveTemplates THEN line.who \o PossessiveS
    ELSE <<>>

\* determineSide(line): "mine", "opponent" or "none" (null)
determineSide(st, line) ==
    IF line.opposing /\ line.tpl \in (SubjectTemplates \cup PossessiveTemplates \cup {"cameOut"}) THEN "opponent"
    ELSE IF line.tpl = "go" THEN "mine"
    ELSE IF st.myName # Null /\ st.opponentName # Null
         THEN IF \/ startsWith(lineStart(line), st.opponentName \o PossessiveS)
                 \/ startsWith(lineStart(line), st.opponentName \o SentOutText)
              THEN "opponent"
              ELSE IF \/ startsWith(lineStart(line), st.myName \o PossessiveS)
                      \/ startsWith(lineStart(line), st.myName \o SentOutText)
                   THEN "mine"
                   ELSE "none"
         ELSE "none"

\* resolveTeamForPokemon(name, explicitSide): "my", "opp" or "none" (null)
resolveTeamForPokemon(st, name, explicitSide) ==
    IF explicitSide = "mine" THEN "my"
    ELSE IF explicitSide = "opponent" THEN "opp"
    ELSE IF findInTeam(st.myTeam, name) # Null THEN "my"
    ELSE IF findInTeam(st.opponentTeam, name) # Null THEN "opp"
    ELSE "none"

\* updatePlayerNames(): a name is taken from the trainer labels once
updatePlayerNames(st, trainers) ==
    LET far(st1) == IF trainers.far # Null /\ st1.opponentName = Null
                    THEN [st1 EXCEPT !.opponentName = trainers.far] ELSE st1
    IN  far(IF trainers.near # Null /\ st.myName = Null THEN [st EXCEPT !.myName = trainers.near] ELSE st)

\* if (key && team[key]) <update>
updateKey(st, sel, key, Update(_)) ==
    IF key = Null THEN st
    ELSE WithTeam(st, sel, [TeamOf(st, sel) EXCEPT ![KeyIndex(TeamOf(st, sel), key)] = Update(@)])

\* if (team) { const key = findInTeam(team, name); ... }
updateIn(st, sel, name, Update(_)) ==
    IF sel = "none" THEN st ELSE updateKey(st, sel, findInTeam(TeamOf(st, sel), name), Update)

\* the common tail of the attribute templates:
\*   const team = resolveTeamForPokemon(name, side);
\*   if (team) { const key = findInTeam(team, name); if (key && team[key]) <update> }
updateMon(st, name, side, Update(_)) ==
    Only({ updateIn(st, resolveTeamForPokemon(st, pokemonName, side), pokemonName, Update) :
               pokemonName \in { name } })

\* rawName.split("'s "): the text before the first "'s " of raw, and the
\* rest joined again (raw itself when there is none)
hasPossessive(raw) == includes(raw, PossessiveS)
FirstPossessive(raw) == CHOOSE i \in 1..Len(raw) : MatchAt(raw, i, PossessiveS) /\ \A j \in 1..(i - 1) : ~MatchAt(raw, j, PossessiveS)
afterPossessive(raw) == IF hasPossessive(raw) THEN substring(raw, FirstPossessive(raw) + 2) ELSE raw
beforePossessive(raw) == IF hasPossessive(raw) THEN SubSeq(raw, 1, FirstPossessive(raw) - 1) ELSE <<>>

Max(a, b) == IF a >= b THEN a ELSE b
Min(a, b) == IF a <= b THEN a ELSE b

\* the common shape of the three switch-in templates:
\*   if (name) { state.<side>Active = name; ensureTeamMember(<team>, name, 'visual'); }
switchIn(st, sel, name) ==
    IF name = Null THEN st
    ELSE ensureTeamMember(IF sel = "opp" THEN [st EXCEPT !.opponentActive = name]
                          ELSE [st EXCEPT !.myActive = name],
                          sel, name, "visual").st

\* lines 756-765: "Go! X!"
parseGo(st, line) ==
    Only({ switchIn(st, "my", name) : name \in { cleanPokemonName(line.who, st.myName, st.opponentName) } })

\* lines 775-781: "Nickname (Species)" in a sent-out line
sentOutSpecies(rawPokemon, nicknameMatch) ==
    IF /\ nicknameMatch # <<>>
       /\ Len(trim(nicknameMatch[2])) >= 1
       /\ IsUpper(trim(nicknameMatch[2])[1])
       /\ trim(nicknameMatch[2]) # <<"M">>
       /\ trim(nicknameMatch[2]) # <<"F">>
    THEN trim(nicknameMatch[2])
    ELSE rawPokemon

\* lines 786-787
isOpp(st, playerName) ==
    \/ (st.opponentName # Null /\ playerName = st.opponentName)
    \/ (st.myName # Null /\ playerName # st.myName)

\* lines 769-797: "P sent out X!"
parseSentOut(st, line) ==
    Only({ switchIn(st, IF isOpp(st, trim(line.owner)) THEN "opp" ELSE "my", name) :
               name \in { cleanPokemonName(sentOutSpecies(trim(line.who), parenMatch(trim(line.who))),
                                           st.myName, st.opponentName) } })

\* lines 800-808: "The opposing X came out!"
parseCameOut(st, line) ==
    Only({ switchIn(st, "opp", name) : name \in { cleanPokemonName(line.who, st.myName, st.opponentName) } })

\* lines 815-824: the side of a move line
moveSideOf(st, side, rawName) ==
    IF hasPossessive(rawName)
    THEN IF st.opponentName # Null /\ trim(beforePossessive(rawName)) = st.opponentName THEN "opponent"
         ELSE IF st.myName # Null /\ trim(beforePossessive(rawName)) = st.myName THEN "mine"
         ELSE side
    ELSE side

\* lines 831-834
addMoveIn(st, sel, pokemonName, moveName) ==
    IF sel = "none" THEN st ELSE addMoveToTeam(st, sel, pokemonName, moveName)

\* lines 826-835
moveOf(st, line, pokemonName, moveSide) ==
    IF pokemonName = Null THEN st
    ELSE addMoveIn(st, resolveTeamForPokemon(st, pokemonName, moveSide), pokemonName, line.what)

\* lines 811-836: "X used M!"
parseMove(st, line, side) ==
    moveOf(st, line, cleanPokemonName(afterPossessive(subjectText(line)), st.myName, st.opponentName),
           moveSideOf(st, side, subjectText(line)))

\* lines 839-855: "X lost N% of its health"
parseDamage(st, line, side) ==
    IF line.tpl # "damage" THEN st
    ELSE updateMon(st, cleanPokemonName(afterPossessive(subjectText(line)), st.myName, st.opponentName), side,
                   LAMBDA mon : [mon EXCEPT !.hp = Max(0, mon.hp - line.num)])

\* lines 858-871
parseTera(st, line, side) ==
    IF line.tpl # "tera" THEN st
    ELSE updateMon(st, cleanPokemonName(subjectText(line), st.myName, st.opponentName), side,
                   LAMBDA mon : [mon EXCEPT !.teraType = line.what, !.isTerastallized = TRUE])

\* a faint block that makes sure of an entry, as the switch-in blocks do
parseFaintEnsuring(st, line, side) ==
    IF line.tpl # "faint" THEN st
    ELSE Only({ updateMon(ensureTeamMember(st, IF side = "mine" THEN "my" ELSE "opp", name, "visual").st,
                          name, side, LAMBDA mon : [mon EXCEPT !.hp = 0, !.status = "fnt"]) :
                    name \in { cleanPokemonName(subjectText(line), st.myName, st.opponentName) } })

\* lines 874-886
parseFaint(st, line, side) ==
    IF line.tpl # "faint" THEN st
    ELSE updateMon(st, cleanPokemonName(subjectText(line), st.myName, st.opponentName), side,
                   LAMBDA mon : [mon EXCEPT !.hp = 0, !.status = "fnt"])

\* lines 889-909
parseStatus(st, line, side) ==
    IF line.tpl # "status" THEN st
    ELSE updateMon(st, cleanPokemonName(subjectText(line), st.myName, st.opponentName), side,
                   LAMBDA mon : [mon EXCEPT !.status = line.what])

\* the common shape of lines 1037-1044, 1053-1060 and 1071-1079:
\*   if (name && value) { ...the common tail... }
updateNamed(st, name, value, side, Update(_)) ==
    IF name = Null \/ value = "" THEN st ELSE updateMon(st, name, side, Update)

\* lines 1027-1047
parseItem(st, line, side) ==
    IF line.tpl # "item" THEN st
    ELSE updateNamed(st, cleanPokemonName(subjectText(line), st.myName, st.opponentName), line.what, side,
                     LAMBDA mon : [mon EXCEPT !.item = line.what])

\* lines 1050-1082: "[A] of X" and "X's A"
parseAbility(st, line, side) ==
    IF line.tpl \notin {"ability", "trigger"} THEN st
    ELSE updateNamed(st, cleanPokemonName(subjectText(line), st.myName, st.opponentName), line.what, side,
                     LAMBDA mon : [mon EXCEPT !.ability = line.what])

statMap(statName) ==
    CASE statName = "attack" -> "atk"
      [] statName = "defense" -> "def"
      [] statName = "special attack" -> "spa"
      [] statName = "special defense" -> "spd"
      [] statName = "speed" -> "spe"
      [] statName = "sp. atk" -> "spa"
      [] statName = "sp. def" -> "spd"
      [] OTHER -> ""

\* lines 1089-1097: the signed number of stages; /rose/i is tested on the
\* whole line, the creature's name included
boostAmount(line) ==
    IF line.num > 0 \/ includes(toLowerCase(line.who), <<"r","o","s","e">>)
    THEN (IF line.num < 0 THEN 0 - line.num ELSE line.num)
    ELSE 0 - (IF line.num < 0 THEN 0 - line.num ELSE line.num)

\* lines 1085-1114
parseBoost(st, line, side) ==
    IF line.tpl # "boost" THEN st
    ELSE updateNamed(st, cleanPokemonName(subjectText(line), st.myName, st.opponentName),
                     statMap(line.what), side,
                     LAMBDA mon : [mon EXCEPT !.boosts[statMap(line.what)] =
                                       Max(-6, Min(6, @ + boostAmount(line)))])

WeatherAbilities == {"Drought", "Drizzle", "Sand Stream", "Snow Warning"}
weatherOfAbility(a) ==
    CASE a = "Drought" -> "Sun" [] a = "Drizzle" -> "Rain" [] a = "Sand Stream" -> "Sand" [] OTHER -> "Snow"

\* does the text hold the player's name
mentions(line, player) == includes(line.owner, player) \/ includes(line.who, player)

\* a hazard counter that does not saturate
scatterUnbounded(count, most) == count + 1
\* lines 956-965: Math.min(<most>, <counter> + 1)
scatter(count, most) == Min(most, count + 1)

\* lines 911-1024: weather, terrain, hazards, Trick Room, Tailwind
parseField(st, line, side) ==
    LET weather(f) ==
            IF line.tpl = "weather" THEN [f EXCEPT !.weather = line.what]
            ELSE IF line.tpl \in {"ability", "trigger"} /\ line.what \in WeatherAbilities
                 THEN [f EXCEPT !.weather = weatherOfAbility(line.what)]
                 ELSE f
        terrain(f) == IF line.tpl = "terrain" THEN [f EXCEPT !.terrain = line.what] ELSE f
        stealthRock(f, onOpp) ==
            IF line.tpl # "stealthRock" THEN f
            ELSE IF onOpp THEN [f EXCEPT !.opponentHazards.stealthRock = TRUE]
            ELSE [f EXCEPT !.myHazards.stealthRock = TRUE]
        \* /Spikes were scattered/i also matches "Poison spikes were scattered"
        spikes(f, onOpp) ==
            IF line.tpl \notin {"spikes", "toxicSpikes"} THEN f
            ELSE IF onOpp THEN [f EXCEPT !.opponentHazards.spikes = scatter(@, 3)]
            ELSE [f EXCEPT !.myHazards.spikes = scatter(@, 3)]
        toxicSpikes(f, onOpp) ==
            IF line.tpl # "toxicSpikes" THEN f
            ELSE IF onOpp THEN [f EXCEPT !.opponentHazards.toxicSpikes = scatter(@, 2)]
            ELSE [f EXCEPT !.myHazards.toxicSpikes = scatter(@, 2)]
        stickyWeb(f, onOpp) ==
            IF line.tpl # "stickyWeb" THEN f
            ELSE IF onOpp THEN [f EXCEPT !.opponentHazards.stickyWeb = TRUE]
            ELSE [f EXCEPT !.myHazards.stickyWeb = TRUE]
        set(f, onOpp) == stickyWeb(toxicSpikes(spikes(stealthRock(f, onOpp), onOpp), onOpp), onOpp)
        gone(f, onMine) ==
            IF line.tpl = "rocksGone"
            THEN IF onMine THEN [f EXCEPT !.myHazards.stealthRock = FALSE]
                 ELSE [f EXCEPT !.opponentHazards.stealthRock = FALSE]
            ELSE IF line.tpl = "spikesGone"
            THEN IF onMine THEN [f EXCEPT !.myHazards.spikes = 0]
                 ELSE [f EXCEPT !.opponentHazards.spikes = 0]
            ELSE IF line.tpl = "toxicSpikesGone"
            THEN IF onMine THEN [f EXCEPT !.myHazards.toxicSpikes = 0]
                 ELSE [f EXCEPT !.opponentHazards.toxicSpikes = 0]
            ELSE IF line.tpl = "webGone"
            THEN IF onMine THEN [f EXCEPT !.myHazards.stickyWeb = FALSE]
                 ELSE [f EXCEPT !.opponentHazards.stickyWeb = FALSE]
            ELSE f
        trickRoom(f) == IF line.tpl = "trickRoom" THEN [f EXCEPT !.trickRoom = (line.what = "on")] ELSE f
        tailwind(f) ==
            IF line.tpl # "tailwind" THEN f
            ELSE IF side = "opponent" THEN [f EXCEPT !.tailwind.opponent = (line.what = "on")]
            ELSE [f EXCEPT !.tailwind.my = (line.what = "on")]
    IN  [st EXCEPT !.field =
            tailwind(trickRoom(
                gone(set(terrain(weather(st.field)), side = "opponent" \/ line.opposing),
                     side = "mine" \/ (st.myName # Null /\ mentions(line, st.myName)))))]

\* parseBattleLogLine, lines 838-1114: the blocks after the move block do
\* not return, they run one after the other
parseBlocks(s0, line, side) ==
    Only({ parseBoost(s7, line, side) :
        s7 \in { parseAbility(s6, line, side) :
        s6 \in { parseItem(s5, line, side) :
        s5 \in { parseField(s4, line, side) :
        s4 \in { parseStatus(s3, line, side) :
        s3 \in { parseFaint(s2, line, side) :
        s2 \in { parseTera(s1, line, side) :
        s1 \in { parseDamage(s0, line, side) } } } } } } } })

\* parseBattleLogLine, lines 745-1114
parseSided(s0, line, side) ==
    IF line.tpl = "turn" THEN [s0 EXCEPT !.turnNumber = line.num]
    ELSE IF line.tpl = "go" THEN parseGo(s0, line)
    ELSE IF line.tpl = "sentOut" THEN parseSentOut(s0, line)
    ELSE IF line.tpl = "cameOut" THEN parseCameOut(s0, line)
    ELSE IF line.tpl = "move" THEN parseMove(s0, line, side)
    ELSE parseBlocks(s0, line, side)

\* parseBattleLogLine, lines 743-1114
parseNamed(s0, line) == Only({ parseSided(s0, line, side) : side \in { determineSide(s0, line) } })

\* parseBattleLogLine(text)
parseBattleLogLine(st, trainers, line) ==
    Only({ parseNamed(s0, line) : s0 \in { updatePlayerNames(st, trainers) } })

\* ---------------------------------------------------------------------
\* DOM scrapers.  What a scraper reads from the page is its input:
\*   bar     [raw, hp, status]        a stat bar: the <strong> text, the width
\*                                    of .hpbar .hp (-1: none), the .status
\*                                    text ("none": no such element)
\*   bars    [left, right]            the .lstatbar and the .rstatbar elements
\*   icon    [label, fainted]         a team icon
\*   page    [near, far]              the icons of the two trainer containers
\*   tip     [raw, moveDb, hover, top, hp, ability, item, teraType, stats, moves]
\*   button  [raw, disabled]          a switch button
\* ---------------------------------------------------------------------
\* the statusMap loop of processStatbar on a status text that is one code
statusOfText(statusText) ==
    CASE statusText = "brn" -> "brn"
      [] statusText = "psn" -> "tox"
      [] statusText = "tox" -> "tox"
      [] statusText = "par" -> "par"
      [] statusText = "slp" -> "slp"
      [] statusText = "frz" -> "frz"
      [] OTHER -> ""

\* processStatbar, lines 1179-1194: the bar's values are written
statbarWrite(st2, sel, bar, key) ==
    IF key = Null THEN st2
    ELSE WithTeam(st2, sel,
             [TeamOf(st2, sel) EXCEPT
                 ![KeyIndex(TeamOf(st2, sel), key)].hp = IF bar.hp >= 0 THEN bar.hp ELSE 100,
                 ![KeyIndex(TeamOf(st2, sel), key)].status =
                     IF bar.status # "none" /\ statusOfText(bar.status) # "" THEN statusOfText(bar.status) ELSE @])

\* processStatbar, lines 1178-1194
statbarKey(st2, sel, bar, actualName) == statbarWrite(st2, sel, bar, findInTeam(TeamOf(st2, sel), actualName))

\* processStatbar, lines 1170-1194
statbarActive(st, sel, bar, actualName) ==
    Only({ statbarKey(st2, sel, bar, actualName) :
               st2 \in { ensureTeamMember(IF sel = "my" THEN [st EXCEPT !.myActive = actualName]
                                          ELSE [st EXCEPT !.opponentActive = actualName],
                                          sel, actualName, "visual").st } })

\* const actualName = existingKey || name
actualNameOf(existingKey, name) == IF existingKey # Null THEN existingKey ELSE name

\* processStatbar, lines 1164-1194
statbarFound(st, sel, bar, name) ==
    Only({ statbarActive(st, sel, bar, actualName) :
               actualName \in { actualNameOf(findInTeam(TeamOf(st, sel), name), name) } })

\* a stat bar handler without the early return of line 1162
statbarUnguarded(st, sel, bar, name) == statbarFound(st, sel, bar, name)

\* processStatbar, lines 1162-1194
statbarNamed(st, sel, bar, name) == IF name = Null THEN st ELSE statbarFound(st, sel, bar, name)

\* processStatbar(bar, team, side)
processStatbar(st, sel, bar) ==
    Only({ statbarNamed(st, sel, bar, name) : name \in { cleanPokemonName(bar.raw, st.myName, st.opponentName) } })

\* bars.forEach(bar => processStatbar(bar, team, side))
RECURSIVE processStatbars(_, _, _, _)
processStatbars(st, sel, bars, n) ==
    IF n = 0 THEN st
    ELSE Only({ processStatbar(st1, sel, bars[n]) : st1 \in { processStatbars(st, sel, bars, n - 1) } })

\* scrapeHP() on a page whose stat bars carry the l/r class
scrapeHP(st, bars) ==
    Only({ processStatbars(st1, "opp", bars.right, Len(bars.right)) :
               st1 \in { processStatbars(st, "my", bars.left, Len(bars.left)) } })

\* processIcon, lines 1372-1376
iconFainted(st1, sel, icon, key) ==
    IF icon.fainted /\ key # Null
    THEN WithTeam(st1, sel, [TeamOf(st1, sel) EXCEPT ![KeyIndex(TeamOf(st1, sel), key)].hp = 0,
                                                     ![KeyIndex(TeamOf(st1, sel), key)].status = "fnt"])
    ELSE st1

\* processIcon, lines 1365-1376
iconKey(st1, sel, icon, name) == iconFainted(st1, sel, icon, findInTeam(TeamOf(st1, sel), name))

\* processIcon, lines 1361-1376
iconNamed(st, sel, icon, name) ==
    IF name = Null THEN st
    ELSE Only({ iconKey(st1, sel, icon, name) : st1 \in { ensureTeamMember(st, sel, name, "visual").st } })

\* processIcon(icon, team)
processIcon(st, sel, icon) ==
    Only({ iconNamed(st, sel, icon, name) : name \in { cleanPokemonName(icon.label, st.myName, st.opponentName) } })

\* icons.forEach(icon => processIcon(icon, team))
RECURSIVE processIcons(_, _, _, _)
processIcons(st, sel, icons, n) ==
    IF n = 0 THEN st
    ELSE Only({ processIcon(st1, sel, icons[n]) : st1 \in { processIcons(st, sel, icons, n - 1) } })

\* scrapeTeamIcons() on a page whose icons are in the two trainer containers
scrapeTeamIcons(st, page) ==
    Only({ processIcons(st1, "opp", page.far, Len(page.far)) :
               st1 \in { processIcons(st, "my", page.near, Len(page.near)) } })

\* { ...mon.stats, ...result.stats }
mergeStats(old, new) ==
    [s \in (DOMAIN old) \cup (DOMAIN new) |-> IF s \in DOMAIN new THEN new[s] ELSE old[s]]

\* new.forEach(m => { if (!moves.includes(m)) moves.push(m) })
RECURSIVE pushMoves(_, _, _)
pushMoves(moves, new, n) ==
    IF n = 0 THEN moves ELSE pushMove(pushMoves(moves, new, n - 1), new[n])

\* lines 1444-1476: the team the tooltip is attributed to
tooltipTeam(st, tip, pokemon) ==
    IF tip.hover = "lstatbar" THEN "my"
    ELSE IF tip.hover = "rstatbar" THEN "opp"
    ELSE IF tip.hover = "near" THEN "my"
    ELSE IF tip.hover = "far" THEN "opp"
    ELSE IF findInTeam(st.myTeam, pokemon) # Null THEN "my"
    ELSE IF findInTeam(st.opponentTeam, pokemon) # Null THEN "opp"
    ELSE IF tip.top THEN "opp" ELSE "my"

\* lines 1485-1496: the tooltip's values are written into the entry
tooltipMerge(mon, tip) ==
    [mon EXCEPT !.hp = IF tip.hp >= 0 THEN tip.hp ELSE @,
                !.ability = IF tip.ability # "" THEN tip.ability ELSE @,
                !.item = IF tip.item # "" THEN tip.item ELSE @,
                !.teraType = IF tip.teraType # "" THEN tip.teraType ELSE @,
                !.stats = IF DOMAIN tip.stats # {} THEN mergeStats(@, tip.stats) ELSE @,
                !.moves = pushMoves(@, tip.moves, Len(tip.moves))]

\* scrapeTooltip, lines 1483-1497
tooltipWrite(st1, sel, tip, actualKey) ==
    IF actualKey = Null \/ ~HasKey(TeamOf(st1, sel), actualKey) THEN st1
    ELSE WithTeam(st1, sel, Put(TeamOf(st1, sel), tooltipMerge(Get(TeamOf(st1, sel), actualKey), tip)))

\* scrapeTooltip, lines 1480-1497: const actualKey = key || findInTeam(team, result.pokemon)
tooltipEnsured(res, sel, tip, pokemon) ==
    tooltipWrite(res.st, sel, tip,
                 IF res.ret # Null THEN res.ret ELSE findInTeam(TeamOf(res.st, sel), pokemon))

\* scrapeTooltip, lines 1478-1497
tooltipSided(st, sel, tip, pokemon) ==
    Only({ tooltipEnsured(res, sel, tip, pokemon) : res \in { ensureTeamMember(st, sel, pokemon, "visual") } })

\* scrapeTooltip, lines 1398-1497
tooltipNamed(st, tip, pokemon) ==
    IF pokemon = Null THEN st
    ELSE IF tip.moveDb /\ lookupMoveFound(pokemon) THEN st
    ELSE tooltipSided(st, tooltipTeam(st, tip, pokemon), tip, pokemon)

\* scrapeTooltip(); tip.moveDb says lookupMove is in scope
scrapeTooltip(st, tip) ==
    Only({ tooltipNamed(st, tip, pokemon) : pokemon \in { cleanPokemonName(tip.raw, st.myName, st.opponentName) } })

\* the names of the moves of the menu
menuNames(menu) == [i \in 1..Len(menu) |-> menu[i].name]

\* scrapeMoveMenu, lines 1231-1237
moveMenuKey(st1, key) ==
    IF key # Null
    THEN [st1 EXCEPT !.myTeam[KeyIndex(st1.myTeam, key)].moves = pushMoves(@, menuNames(st1.myMoves), Len(st1.myMoves))]
    ELSE st1

\* scrapeMoveMenu, lines 1229-1238
moveMenuActive(st1) ==
    IF Len(st1.myMoves) > 0 /\ st1.myActive # Null
    THEN moveMenuKey(st1, findInTeam(st1.myTeam, st1.myActive))
    ELSE st1

\* scrapeMoveMenu(): buttons is the list of the move buttons, each with the
\* name of its move and its disabled flag (the type of a button is not read
\* anywhere)
scrapeMoveMenu(st, buttons) ==
    moveMenuActive([st EXCEPT !.myMoves = SelectSeq(buttons, LAMBDA m : m.name # "" /\ m.name # "Struggle")])

\* scrapeSwitchMenu, lines 1266-1268
switchPush(st1, button, name) ==
    IF button.disabled THEN st1 ELSE [st1 EXCEPT !.mySwitches = Append(@, name)]

\* scrapeSwitchMenu, lines 1262-1269
switchNamed(st, button, name) ==
    IF name = Null THEN st
    ELSE Only({ switchPush(st1, button, name) : st1 \in { ensureTeamMember(st, "my", name, "visual").st } })

\* the body of the forEach of scrapeSwitchMenu
switchButton(st, button) ==
    Only({ switchNamed(st, button, name) : name \in { cleanPokemonName(button.raw, st.myName, st.opponentName) } })

RECURSIVE switchButtons(_, _, _)
switchButtons(st, buttons, n) ==
    IF n = 0 THEN st
    ELSE Only({ switchButton(st1, buttons[n]) : st1 \in { switchButtons(st, buttons, n - 1) } })

\* scrapeSwitchMenu, lines 1272-1285
forceSwitchOf(st1, menu) ==
    IF ~menu.visible THEN [st1 EXCEPT !.forceSwitch = FALSE]
    ELSE [st1 EXCEPT !.forceSwitch = (Len(st1.mySwitches) > 0 /\ ~menu.cancel)]

\* scrapeSwitchMenu(): menu = [buttons, visible, cancel]
scrapeSwitchMenu(st, menu) ==
    forceSwitchOf(switchButtons([st EXCEPT !.mySwitches = <<>>], menu.buttons, Len(menu.buttons)), menu)

\* ---------------------------------------------------------------------
\* The log observer
\* ---------------------------------------------------------------------
\* the loop of processNewLogLines over the entries from..n of the log:
\* every entry holds one line of text
RECURSIVE parseFrom(_, _, _, _, _)
parseFrom(st, trainers, entries, from, n) ==
    IF n < from THEN st
    ELSE Only({ parseBattleLogLine(st1, trainers, entries[n]) :
                    st1 \in { parseFrom(st, trainers, entries, from, n - 1) } })

\* the first entry processNewLogLines reads (the loop starts at the 0-based
\* index processedLogCount), and the high-water mark it leaves
firstNewLine(count) == count + 1
\* a high-water mark that is never advanced
keepLogCount(count, totalLines) == count
nextLogCount(count, totalLines) == totalLines

\* ---------------------------------------------------------------------
\* State
\* ---------------------------------------------------------------------
VARIABLES
    state,              \* the scraper's state object (displaySlots, a projection no handler reads, is left out)
    processedLogCount,  \* the high-water mark of processNewLogLines
    trainers,           \* the page: the .trainer-near / .trainer-far labels
    history,            \* the page: the .battle-history entries of the log
    observing,          \* initialScan has run and the observers are installed
    prev,               \* history variable: state before the last handler ran
    lastObs,            \* history variable: the last handler and what it read from the page
    parsedLog,          \* history variable: the log positions handed to parseBattleLogLine
    sighted,            \* history variable: the canonical names the scrapers have seen on the page
    nObs,               \* number of handler runs since the initial scan
    snapshot,           \* the object a caller of getState holds, and what the caller has seen in it
    report,             \* the last report of PredictionEngine.analyze
    calc,               \* the damage calculator: its arguments and its result
    content             \* the content script: its closure variables, its timers and the page it watches

vars == <<state, processedLogCount, trainers, history, observing, prev, lastObs, parsedLog, sighted, nObs,
          snapshot, report, calc, content>>

\* what the fusion engine's handlers do not touch
clientVars == <<snapshot, report, calc, content>>

NoHazards == [stealthRock |-> FALSE, spikes |-> 0, toxicSpikes |-> 0, stickyWeb |-> FALSE]

InitState ==
    [ myTeam |-> <<>>, opponentTeam |-> <<>>,
      myActive |-> Null, opponentActive |-> Null,
      myName |-> Null, opponentName |-> Null,
      field |-> [ weather |-> "", terrain |-> "",
                  myHazards |-> NoHazards, opponentHazards |-> NoHazards,
                  trickRoom |-> FALSE, tailwind |-> [my |-> FALSE, opponent |-> FALSE] ],
      turnNumber |-> 0,
      myMoves |-> <<>>, mySwitches |-> <<>>,
      forceSwitch |-> FALSE ]

\* no caller holds a snapshot, nothing has been analysed or calculated
NoSnapshot == [ref |-> "none", object |-> InitState, view |-> InitState]
NoReport == [made |-> FALSE]
NoCalc == [op |-> "none"]
NoContent == [loaded |-> FALSE]

Init ==
    /\ state = InitState
    /\ processedLogCount = 0
    /\ trainers = [near |-> Null, far |-> Null]
    /\ history = <<>>
    /\ observing = FALSE
    /\ prev = InitState
    /\ lastObs = [op |-> "none", input |-> <<>>]
    /\ parsedLog = <<>>
    /\ sighted = {}
    /\ nObs = 0
    /\ snapshot = NoSnapshot
    /\ report = NoReport
    /\ content = NoContent
    /\ calc = NoCalc

\* ---------------------------------------------------------------------
\* Bounds
\* ---------------------------------------------------------------------
MaxObs == 2
MaxLog == 2

\* ---------------------------------------------------------------------
\* Actions
\* ---------------------------------------------------------------------
\* the raw creature names an observation shows
Range(seq) == { seq[i] : i \in 1..Len(seq) }
RawNames(obs) ==
    CASE obs.op = "statbar" -> { b.raw : b \in Range(obs.input.left) \cup Range(obs.input.right) }
      [] obs.op = "icons" -> { i.label : i \in Range(obs.input.near) \cup Range(obs.input.far) }
      [] obs.op = "tooltip" -> { obs.input.raw }
      [] obs.op = "switches" -> { b.raw : b \in Range(obs.input.buttons) }
      [] OTHER -> {}

\* their canonical names, as a handler that starts in st computes them
CanonicalNames(obs, st) ==
    { cleanPokemonName(raw, st.myName, st.opponentName) : raw \in RawNames(obs) } \ {Null}

\* a handler ran to completion
Handled(op, input, newState) ==
    /\ state' = newState
    /\ prev' = state
    /\ lastObs' = [op |-> op, input |-> input]
    /\ UNCHANGED clientVars

\* a page without stat bars, icons, tooltip, move buttons or switch menu
NoMenu == [buttons |-> <<>>, visible |-> FALSE, cancel |-> FALSE]

\* the page shows the two trainer labels
TrainersAppear(near, far) ==
    /\ trainers.near = Null /\ trainers.far = Null
    /\ trainers' = [near |-> near, far |-> far]
    /\ UNCHANGED <<state, processedLogCount, history, observing, prev, lastObs, parsedLog, sighted, nObs, snapshot, report, calc, content>>

\* the page appends an entry to the battle log
AppendLog(line) ==
    /\ Len(history) < MaxLog
    /\ history' = Append(history, line)
    /\ UNCHANGED <<state, processedLogCount, trainers, observing, prev, lastObs, parsedLog, sighted, nObs, snapshot, report, calc, content>>

\* what processNewLogLines reads from the page
LogInput == [ lines |-> SubSeq(history, firstNewLine(processedLogCount), Len(history)),
              trainers |-> trainers,
              total |-> Len(history) ]

\* the bookkeeping of processNewLogLines
LogRead ==
    /\ processedLogCount' = nextLogCount(processedLogCount, Len(history))
    /\ parsedLog' = parsedLog \o
            [i \in 1..(Len(history) - processedLogCount) |-> firstNewLine(processedLogCount) + i - 1]

\* initialScan() on a page that shows the trainer labels and the log so
\* far, but no stat bar, icon or menu yet; then startObserving()
InitialScan ==
    /\ ~observing
    /\ observing' = TRUE
    /\ Handled("scan", LogInput,
               parseFrom(scrapeSwitchMenu(scrapeMoveMenu(updatePlayerNames(state, trainers), <<>>), NoMenu),
                         trainers, history, firstNewLine(processedLogCount), Len(history)))
    /\ LogRead
    /\ UNCHANGED <<trainers, history, sighted, nObs>>

\* processNewLogLines(), called by the observer
ProcessNewLogLines ==
    /\ observing
    /\ nObs < MaxObs
    /\ nObs' = nObs + 1
    /\ Handled("log", LogInput,
               parseFrom(state, trainers, history, firstNewLine(processedLogCount), Len(history)))
    /\ LogRead
    /\ UNCHANGED <<trainers, history, observing, sighted>>

\* a scraper of the page ran
Scraped(op, input, newState) ==
    /\ observing
    /\ nObs < MaxObs
    /\ nObs' = nObs + 1
    /\ Handled(op, input, newState)
    /\ sighted' = sighted \cup CanonicalNames([op |-> op, input |-> input], state)
    /\ UNCHANGED <<processedLogCount, trainers, history, observing, parsedLog>>

\* scrapeHP()
ScrapeHP(bars) == Scraped("statbar", bars, scrapeHP(state, bars))

\* scrapeTeamIcons()
ScrapeTeamIcons(page) == Scraped("icons", page, scrapeTeamIcons(state, page))

\* scrapeTooltip()
ScrapeTooltip(tip) == Scraped("tooltip", tip, scrapeTooltip(state, tip))

\* scrapeMoveMenu()
ScrapeMoveMenu(buttons) == Scraped("moves", buttons, scrapeMoveMenu(state, buttons))

\* scrapeSwitchMenu()
ScrapeSwitchMenu(menu) == Scraped("switches", menu, scrapeSwitchMenu(state, menu))

\* ---------------------------------------------------------------------
\* Pages and logs the engine is run on
\* ---------------------------------------------------------------------
Ash == <<"A","s","h">>
Gary == <<"G","a","r","y">>
Urshifu == <<"U","r","s","h","i","f","u">>
UrshifuRapid == <<"U","r","s","h","i","f","u","-","R","a","p","i","d","-","S","t","r","i","k","e">>
RaichuAlolan == <<"R","a","i","c","h","u","-","A","l","o","l","a","n">>
RaichuAlola == <<"R","a","i","c","h","u","-","A","l","o","l","a">>
Fnt == <<"f","n","t">>
Mew == <<"M","e","w">>
Muk == <<"M","u","k">>
Abra == <<"A","b","r","a">>
Onix == <<"O","n","i","x">>
Seel == <<"S","e","e","l">>
Jynx == <<"J","y","n","x">>
Aron == <<"A","r","o","n">>

Sels == {"my", "opp"}
Icon(label, fainted) == [label |-> label, fainted |-> fainted]
Bar(raw, hp, status) == [raw |-> raw, hp |-> hp, status |-> status]
Tip(raw, moveDb) ==
    [raw |-> raw, moveDb |-> moveDb, hover |-> "none", top |-> TRUE, hp |-> -1, ability |-> "",
     item |-> "Choice Band", teraType |-> "", stats |-> [s \in {"atk"} |-> 359], moves |-> <<"U-turn">>]

BarPages == { [left |-> <<Bar(Urshifu, 50, "psn")>>, right |-> <<>>],
              [left |-> <<>>, right |-> <<Bar(Urshifu, 50, "psn")>>],
              [left |-> <<Bar(Fnt, 50, "none")>>, right |-> <<>>] }
IconPages == { [near |-> <<Icon(Urshifu, FALSE)>>, far |-> <<>>],
               [near |-> <<Icon(UrshifuRapid, FALSE)>>, far |-> <<>>],
               [near |-> <<>>, far |-> <<Icon(Urshifu, TRUE)>>],
               [near |-> <<Icon(Fnt, FALSE)>>, far |-> <<>>],
               [near |-> <<>>, far |-> <<Icon(RaichuAlolan, FALSE), Icon(RaichuAlola, TRUE)>>] }
Tips == { Tip(Urshifu, FALSE), Tip(Urshifu, TRUE), Tip(Fnt, FALSE) }
MoveButton(name, disabled) == [name |-> name, disabled |-> disabled]
MoveButtons == { << MoveButton("Close Combat", FALSE), MoveButton("Struggle", FALSE) >> }
Menus == { [buttons |-> << [raw |-> Fnt, disabled |-> FALSE] >>, visible |-> TRUE, cancel |-> FALSE],
           [buttons |-> << [raw |-> UrshifuRapid, disabled |-> TRUE],
                           [raw |-> RaichuAlola, disabled |-> FALSE] >>, visible |-> TRUE, cancel |-> FALSE] }
LogLines ==
    { Line("go", FALSE, Null, Urshifu, "", 0),
      Line("sentOut", FALSE, Gary, UrshifuRapid, "", 0),
      Line("cameOut", TRUE, Null, Fnt, "", 0),
      Line("damage", TRUE, Null, Urshifu, "", 25) }

\* the fusion engine under every source of observations
Next ==
    \/ TrainersAppear(Ash, Gary)
    \/ \E line \in LogLines : AppendLog(line)
    \/ InitialScan
    \/ ProcessNewLogLines
    \/ \E bars \in BarPages : ScrapeHP(bars)
    \/ \E page \in IconPages : ScrapeTeamIcons(page)
    \/ \E tip \in Tips : ScrapeTooltip(tip)
    \/ \E buttons \in MoveButtons : ScrapeMoveMenu(buttons)
    \/ \E menu \in Menus : ScrapeSwitchMenu(menu)

Spec == Init /\ [][Next]_vars

\* the log parser: every template that changes an attribute of a creature,
\* about a creature the team icons may or may not have shown
AttributeTemplates == {"damage", "tera", "faint", "status", "item", "ability", "trigger", "boost"}
AttributeLines ==
    { Line("damage", TRUE, Null, Urshifu, "", 25),
      Line("tera", TRUE, Null, Urshifu, "Water", 0),
      Line("faint", TRUE, Null, Urshifu, "", 0),
      Line("status", TRUE, Null, Urshifu, "brn", 0),
      Line("item", TRUE, Null, Urshifu, "Leftovers", 0),
      Line("ability", TRUE, Null, Urshifu, "Unseen Fist", 0),
      Line("trigger", TRUE, Null, Urshifu, "Intimidate", 0),
      Line("boost", TRUE, Null, Urshifu, "attack", 1),
      Line("faint", FALSE, Null, UrshifuRapid, "", 0),
      Line("boost", FALSE, Null, Urshifu, "speed", -2) }
LogIconPages == { [near |-> <<Icon(Urshifu, FALSE)>>, far |-> <<>>],
                  [near |-> <<>>, far |-> <<Icon(Urshifu, FALSE)>>] }

NextLog ==
    \/ TrainersAppear(Ash, Gary)
    \/ \E line \in AttributeLines : AppendLog(line)
    \/ InitialScan
    \/ ProcessNewLogLines
    \/ \E page \in LogIconPages : ScrapeTeamIcons(page)

SpecLog == Init /\ [][NextLog]_vars

\* full rosters: six creatures on the near side, a seventh one seen on
\* either side
FullSide == <<Icon(Mew, FALSE), Icon(Muk, FALSE), Icon(Abra, FALSE),
              Icon(Onix, FALSE), Icon(Seel, FALSE), Icon(Jynx, FALSE)>>
CapacityIconPages == { [near |-> FullSide, far |-> <<Icon(Aron, FALSE)>>],
                       [near |-> FullSide, far |-> <<>>],
                       [near |-> <<Icon(Aron, FALSE)>>, far |-> <<>>],
                       [near |-> <<>>, far |-> <<Icon(Aron, FALSE)>>] }
CapacityBarPages == { [left |-> <<Bar(Aron, 80, "none")>>, right |-> <<>>],
                      [left |-> <<>>, right |-> <<Bar(Aron, 80, "none")>>] }
CapacityLines == { Line("go", FALSE, Null, Aron, "", 0), Line("cameOut", TRUE, Null, Aron, "", 0) }

NextCapacity ==
    \/ TrainersAppear(Ash, Gary)
    \/ \E line \in CapacityLines : AppendLog(line)
    \/ InitialScan
    \/ ProcessNewLogLines
    \/ \E bars \in CapacityBarPages : ScrapeHP(bars)
    \/ \E page \in CapacityIconPages : ScrapeTeamIcons(page)

SpecCapacity == Init /\ [][NextCapacity]_vars

\* ---------------------------------------------------------------------
\* The log parser on field narration and turn lines
\* ---------------------------------------------------------------------
MaxFieldLog == 4

\* the page appends an entry of field narration to the battle log
AppendFieldLog(line) ==
    /\ Len(history) < MaxFieldLog
    /\ history' = Append(history, line)
    /\ UNCHANGED <<state, processedLogCount, trainers, observing, prev, lastObs, parsedLog, sighted, nObs, snapshot, report, calc, content>>

\* "Spikes were scattered ... around the opposing team!" / "... around your
\* team!", "Poison spikes were scattered ...", "The spikes disappeared from
\* around the opposing team!" / "... from around Ash's team!", "The poison
\* spikes disappeared ...", "Turn 1", "Turn 2"
FieldLines ==
    { Line("spikes", TRUE, Null, Null, "", 0),
      Line("spikes", FALSE, Null, Null, "", 0),
      Line("toxicSpikes", TRUE, Null, Null, "", 0),
      Line("spikesGone", TRUE, Null, Null, "", 0),
      Line("spikesGone", FALSE, Ash, Null, "", 0),
      Line("toxicSpikesGone", TRUE, Null, Null, "", 0),
      Line("turn", FALSE, Null, Null, "", 1),
      Line("turn", FALSE, Null, Null, "", 2) }

NextField ==
    \/ TrainersAppear(Ash, Gary)
    \/ \E line \in FieldLines : AppendFieldLog(line)
    \/ InitialScan
    \/ ProcessNewLogLines

SpecField == Init /\ [][NextField]_vars

\* ---------------------------------------------------------------------
\* Hit points: stat bars and tooltips with and without a reading, and
\* damage narration
\* ---------------------------------------------------------------------
HpBarPages == { [left |-> <<Bar(Urshifu, 50, "none")>>, right |-> <<>>],
                [left |-> <<Bar(Urshifu, -1, "none")>>, right |-> <<>>],
                [left |-> <<>>, right |-> <<Bar(Urshifu, -1, "brn")>>] }
HpTips == { Tip(Urshifu, FALSE), [Tip(Urshifu, FALSE) EXCEPT !.hp = 30] }
HpLines == { Line("damage", TRUE, Null, Urshifu, "", 25), Line("damage", FALSE, Null, Urshifu, "", 60) }

NextHp ==
    \/ TrainersAppear(Ash, Gary)
    \/ \E line \in HpLines : AppendLog(line)
    \/ InitialScan
    \/ ProcessNewLogLines
    \/ \E bars \in HpBarPages : ScrapeHP(bars)
    \/ \E tip \in HpTips : ScrapeTooltip(tip)

SpecHp == Init /\ [][NextHp]_vars

\* ---------------------------------------------------------------------
\* Known moves: the three channels that report a move, and the sightings
\* that upgrade the key of an entry or move it to the other team
\* ---------------------------------------------------------------------
MoveLines == { Line("go", FALSE, Null, Urshifu, "", 0),
               Line("move", TRUE, Null, Urshifu, "U-turn", 0),
               Line("move", FALSE, Ash, Urshifu, "Close Combat", 0) }
MoveIconPages == { [near |-> <<Icon(UrshifuRapid, FALSE)>>, far |-> <<>>],
                   [near |-> <<>>, far |-> <<Icon(Urshifu, FALSE)>>] }
MoveTips == { Tip(Urshifu, FALSE) }

NextMoves ==
    \/ TrainersAppear(Ash, Gary)
    \/ \E line \in MoveLines : AppendLog(line)
    \/ InitialScan
    \/ ProcessNewLogLines
    \/ \E page \in MoveIconPages : ScrapeTeamIcons(page)
    \/ \E tip \in MoveTips : ScrapeTooltip(tip)
    \/ \E buttons \in MoveButtons : ScrapeMoveMenu(buttons)

SpecMoves == Init /\ [][NextMoves]_vars


\* ---------------------------------------------------------------------
\* Fainting: the log line and the icon that report a faint, and the stat
\* bars, tooltips and damage narration that report hit points
\* ---------------------------------------------------------------------
FaintBarPages == { [left |-> <<Bar(Urshifu, 50, "none")>>, right |-> <<>>],
                   [left |-> <<>>, right |-> <<Bar(Urshifu, 0, "brn")>>] }
FaintTips == { [Tip(Urshifu, FALSE) EXCEPT !.hp = 30] }
FaintIconPages == { [near |-> <<Icon(Urshifu, TRUE)>>, far |-> <<>>] }
FaintLines == { Line("go", FALSE, Null, Urshifu, "", 0),
                Line("faint", FALSE, Null, Urshifu, "", 0),
                Line("damage", FALSE, Null, Urshifu, "", 60) }

NextFaint ==
    \/ \E line \in FaintLines : AppendLog(line)
    \/ InitialScan
    \/ ProcessNewLogLines
    \/ \E bars \in FaintBarPages : ScrapeHP(bars)
    \/ \E page \in FaintIconPages : ScrapeTeamIcons(page)
    \/ \E tip \in FaintTips : ScrapeTooltip(tip)

SpecFaint == Init /\ [][NextFaint]_vars
\* ---------------------------------------------------------------------
\* The public API (scraper.js, lines 1656-1667)
\* ---------------------------------------------------------------------
\* JSON.parse(JSON.stringify(x)) of a creature entry: a fresh object with
\* the same strings, numbers, booleans and arrays
jsonEntry(mon) ==
    [ name |-> mon.name, hp |-> mon.hp, ability |-> mon.ability, item |-> mon.item,
      teraType |-> mon.teraType, isTerastallized |-> mon.isTerastallized,
      moves |-> [i \in 1..Len(mon.moves) |-> mon.moves[i]],
      stats |-> mon.stats,
      types |-> [i \in 1..Len(mon.types) |-> mon.types[i]],
      status |-> mon.status, revealed |-> mon.revealed,
      boosts |-> [b \in DOMAIN mon.boosts |-> mon.boosts[b]] ]

\* JSON.parse(JSON.stringify(x)) of a team: the entries in key order
jsonTeam(team) == [i \in 1..Len(team) |-> jsonEntry(team[i])]

\* JSON.parse(JSON.stringify(state))
jsonCopy(st) ==
    [ myTeam |-> jsonTeam(st.myTeam), opponentTeam |-> jsonTeam(st.opponentTeam),
      myActive |-> st.myActive, opponentActive |-> st.opponentActive,
      myName |-> st.myName, opponentName |-> st.opponentName,
      field |-> [ weather |-> st.field.weather, terrain |-> st.field.terrain,
                  myHazards |-> [h \in DOMAIN st.field.myHazards |-> st.field.myHazards[h]],
                  opponentHazards |-> [h \in DOMAIN st.field.opponentHazards |-> st.field.opponentHazards[h]],
                  trickRoom |-> st.field.trickRoom,
                  tailwind |-> [my |-> st.field.tailwind.my, opponent |-> st.field.tailwind.opponent] ],
      turnNumber |-> st.turnNumber,
      myMoves |-> [i \in 1..Len(st.myMoves) |-> st.myMoves[i]],
      mySwitches |-> [i \in 1..Len(st.mySwitches) |-> st.mySwitches[i]],
      forceSwitch |-> st.forceSwitch ]

\* a getState that hands out the engine's own object
exposeState(st) == [ref |-> "engine", object |-> st, view |-> st]

\* line 1658: getState returns a reference to a copy of the state
getState(st) == [ref |-> "copy", object |-> jsonCopy(st), view |-> jsonCopy(st)]

\* the object a reference leads to
Deref(snap, st) == IF snap.ref = "engine" THEN st ELSE snap.object

\* what a caller may write into the object it holds
ClientWrites == {"clearTeams", "faintAll", "nextTurn"}
Fainted(team) == [i \in 1..Len(team) |-> [team[i] EXCEPT !.hp = 0]]
Written(w, obj) ==
    CASE w = "clearTeams" -> [obj EXCEPT !.myTeam = <<>>, !.opponentTeam = <<>>, !.myActive = Null]
      [] w = "faintAll" -> [obj EXCEPT !.myTeam = Fainted(@), !.opponentTeam = Fainted(@)]
      [] w = "nextTurn" -> [obj EXCEPT !.turnNumber = IF @ < 2 THEN @ + 1 ELSE @]

\* a caller asks for the state
GetState ==
    /\ observing
    /\ snapshot.ref = "none"
    /\ snapshot' = getState(state)
    /\ prev' = state
    /\ lastObs' = [op |-> "getState", input |-> <<>>]
    /\ UNCHANGED <<state, processedLogCount, trainers, history, observing, parsedLog, sighted, nObs, report, calc, content>>

\* the caller writes into the object it was given
ClientWrite(w) ==
    /\ snapshot.ref # "none"
    /\ snapshot' = [snapshot EXCEPT !.object = IF snapshot.ref = "copy" THEN Written(w, @) ELSE @,
                                    !.view = Written(w, Deref(snapshot, state))]
    /\ state' = IF snapshot.ref = "engine" THEN Written(w, state) ELSE state
    /\ prev' = state
    /\ lastObs' = [op |-> "client", input |-> w]
    /\ UNCHANGED <<processedLogCount, trainers, history, observing, parsedLog, sighted, nObs, report, calc, content>>

NextSnapshot ==
    \/ TrainersAppear(Ash, Gary)
    \/ InitialScan
    \/ \E page \in LogIconPages : ScrapeTeamIcons(page)
    \/ \E bars \in HpBarPages : ScrapeHP(bars)
    \/ GetState
    \/ \E w \in ClientWrites : ClientWrite(w)

SpecSnapshot == Init /\ [][NextSnapshot]_vars
\* ---------------------------------------------------------------------
\* Numbers of the prediction engine.  A number is a fraction <<n, d>> in
\* lowest terms with d > 0; NaN is <<0, 0>>.  Products and quotients are
\* exact here, where the engine rounds them to doubles.
\* ---------------------------------------------------------------------
NaN == <<0, 0>>
Abs(n) == IF n < 0 THEN 0 - n ELSE n
RECURSIVE GCD(_, _)
GCD(a, b) == IF b = 0 THEN a ELSE GCD(b, a % b)
Frac(n, d) ==
    IF d = 0 THEN NaN
    ELSE IF n = 0 THEN <<0, 1>>
    ELSE <<n \div GCD(Abs(n), d), d \div GCD(Abs(n), d)>>
Whole(n) == <<n, 1>>
IsNaN(x) == x[2] = 0
Times(x, y) == IF IsNaN(x) \/ IsNaN(y) THEN NaN ELSE Frac(x[1] * y[1], x[2] * y[2])
Over(x, y) ==
    IF IsNaN(x) \/ IsNaN(y) \/ y[1] = 0 THEN NaN
    ELSE IF y[1] < 0 THEN Frac((0 - x[1]) * y[2], x[2] * (0 - y[1]))
    ELSE Frac(x[1] * y[2], x[2] * y[1])
Plus(x, y) == IF IsNaN(x) \/ IsNaN(y) THEN NaN ELSE Frac(x[1] * y[2] + y[1] * x[2], x[2] * y[2])
\* Math.floor
Floor(x) == IF IsNaN(x) THEN NaN ELSE Whole(x[1] \div x[2])
\* x < y, x >= y, x === y: false when either side is NaN (or undefined)
Less(x, y) == ~IsNaN(x) /\ ~IsNaN(y) /\ x[1] * y[2] < y[1] * x[2]
AtLeast(x, y) == ~IsNaN(x) /\ ~IsNaN(y) /\ x[1] * y[2] >= y[1] * x[2]
Same(x, y) == ~IsNaN(x) /\ ~IsNaN(y) /\ x = y
\* Math.max(0, x)
AtLeastZero(x) == IF IsNaN(x) THEN NaN ELSE IF x[1] < 0 THEN Whole(0) ELSE x

\* ---------------------------------------------------------------------
\* data/type_chart.js
\* ---------------------------------------------------------------------
TYPES ==
    << "Normal", "Fire", "Water", "Electric", "Grass", "Ice",
       "Fighting", "Poison", "Ground", "Flying", "Psychic",
       "Bug", "Rock", "Ghost", "Dragon", "Dark", "Steel", "Fairy" >>

\* the matrix in halves: 0 is immune, 1 is 0.5, 2 is 1, 4 is 2
TYPE_CHART_MATRIX ==
    << <<2,2,2,2,2,2,2,2,2,2,2,2,1,0,2,2,1,2>>,
       <<2,1,1,2,4,4,2,2,2,2,2,4,1,2,1,2,4,2>>,
       <<2,4,1,2,1,2,2,2,4,2,2,2,4,2,1,2,2,2>>,
       <<2,2,4,1,1,2,2,2,0,4,2,2,2,2,1,2,2,2>>,
       <<2,1,4,2,1,2,2,1,4,1,2,1,4,2,1,2,1,2>>,
       <<2,1,1,2,4,1,2,2,4,4,2,2,2,2,4,2,1,2>>,
       <<4,2,2,2,2,4,2,1,2,1,1,1,4,0,2,4,4,1>>,
       <<2,2,2,2,4,2,2,1,1,2,2,2,1,1,2,2,0,4>>,
       <<2,4,2,4,1,2,2,4,2,0,2,1,4,2,2,2,4,2>>,
       <<2,2,2,1,4,2,4,2,2,2,2,4,1,2,2,2,1,2>>,
       <<2,2,2,2,2,2,4,4,2,2,1,2,2,2,2,0,1,2>>,
       <<2,1,2,2,4,2,1,1,2,1,4,2,2,1,2,4,1,1>>,
       <<2,4,2,2,2,4,1,2,1,4,2,4,2,2,2,2,1,2>>,
       <<0,2,2,2,2,2,2,2,2,2,4,2,2,4,2,1,2,2>>,
       <<2,2,2,2,2,2,2,2,2,2,2,2,2,2,4,2,1,0>>,
       <<2,2,2,2,2,2,1,2,2,2,4,2,2,4,2,1,2,1>>,
       <<2,1,1,1,2,4,2,2,2,2,2,2,4,2,2,2,1,4>>,
       <<2,1,2,2,2,2,4,1,2,2,2,2,2,2,4,4,1,2>> >>

TypeIndex(type) == CHOOSE i \in 1..Len(TYPES) : TYPES[i] = type
TypeNames == { TYPES[i] : i \in 1..Len(TYPES) }

\* TYPE_CHART[attacking][defending], an object keyed by the type names
TYPE_CHART ==
    [ a \in TypeNames |-> [ d \in TypeNames |-> Frac(TYPE_CHART_MATRIX[TypeIndex(a)][TypeIndex(d)], 2) ] ]

\* ---------------------------------------------------------------------
\* data/move_data.js.  A move name is an atom here: it is spelled as the
\* database spells it, or it is not in the database in any spelling.
\* ---------------------------------------------------------------------
Move(name, bp, type, cat, priority, flags) ==
    [ name |-> name, bp |-> bp, type |-> type, cat |-> cat, priority |-> priority,
      flags |-> flags, isUnknown |-> FALSE ]

MOVE_DATA ==
    << Move("Earthquake", 100, "Ground", "Physical", 0, {}),
       Move("Close Combat", 120, "Fighting", "Physical", 0, {"contact"}),
       Move("Knock Off", 65, "Dark", "Physical", 0, {"contact"}),
       Move("U-turn", 70, "Bug", "Physical", 0, {"contact", "pivot"}),
       Move("Wicked Blow", 75, "Dark", "Physical", 0, {"contact"}),
       Move("Surging Strikes", 25, "Water", "Physical", 0, {"contact"}),
       Move("Body Press", 80, "Fighting", "Physical", 0, {"contact"}),
       Move("Facade", 70, "Normal", "Physical", 0, {"contact"}),
       Move("Acrobatics", 55, "Flying", "Physical", 0, {"contact"}),
       Move("Psyshock", 80, "Psychic", "Special", 0, {}),
       Move("Hex", 65, "Ghost", "Special", 0, {}),
       Move("Aqua Jet", 40, "Water", "Physical", 1, {"contact", "priority"}),
       Move("Sucker Punch", 70, "Dark", "Physical", 1, {"contact", "priority"}),
       Move("Swords Dance", 0, "Normal", "Status", 0, {"setup"}),
       Move("Recover", 0, "Normal", "Status", 0, {"recovery"}),
       Move("Stealth Rock", 0, "Rock", "Status", 0, {"hazard"}),
       Move("Seismic Toss", 0, "Fighting", "Physical", 0, {"contact"}),
       Move("Tera Blast", 80, "Normal", "Special", 0, {}),
       Move("Dragon Claw", 80, "Dragon", "Physical", 0, {"contact"}),
       Move("Triple Axel", 40, "Ice", "Physical", 0, {"contact"}),
       Move("Low Kick", 0, "Fighting", "Physical", 0, {"contact"}),
       Move("Shadow Ball", 80, "Ghost", "Special", 0, {}),
       Move("Draco Meteor", 130, "Dragon", "Special", 0, {}),
       Move("Flamethrower", 90, "Fire", "Special", 0, {}),
       Move("Scald", 80, "Water", "Special", 0, {}),
       Move("Earth Power", 90, "Ground", "Special", 0, {}),
       Move("Magma Storm", 100, "Fire", "Special", 0, {}),
       Move("Ice Shard", 40, "Ice", "Physical", 1, {"contact", "priority"}),
       Move("Dragon Dance", 0, "Dragon", "Status", 0, {"setup"}),
       Move("Roost", 0, "Flying", "Status", 0, {"recovery"}),
       Move("Soft-Boiled", 0, "Normal", "Status", 0, {"recovery"}),
       Move("Toxic Spikes", 0, "Poison", "Status", 0, {"hazard"}),
       Move("Toxic", 0, "Poison", "Status", 0, {"status"}),
       Move("Haze", 0, "Ice", "Status", 0, {}) >>

MoveNames == { MOVE_DATA[i].name : i \in 1..Len(MOVE_DATA) }

\* the record lookupMove returns for a name that is not in the database
unknownMove(name) ==
    [ name |-> name, bp |-> 0, type |-> "Normal", cat |-> "Status", priority |-> 0,
      flags |-> {}, isUnknown |-> TRUE ]

\* lookupMove(name): <<record>>, or <<>> for null
lookupMove(name) ==
    IF name = "" THEN <<>>
    ELSE IF name \in MoveNames THEN << MOVE_DATA[CHOOSE i \in 1..Len(MOVE_DATA) : MOVE_DATA[i].name = name] >>
    ELSE << unknownMove(name) >>

\* ---------------------------------------------------------------------
\* PredictionEngine (unnamed/part_003, lines 973-1987)
\* ---------------------------------------------------------------------
Level == 100

\* calcStat(base, ev, iv, nature, level, isHP); nature is a fraction
calcStat(base, ev, iv, nature, level, isHP) ==
    IF isHP
    THEN Whole(((2 * base + iv + (ev \div 4)) * level) \div 100 + level + 10)
    ELSE Floor(Times(Whole(((2 * base + iv + (ev \div 4)) * level) \div 100 + 5), nature))

\* chart.<list>?.includes(type)
listed(chart, list, type) == list \in DOMAIN chart /\ type \in chart[list]

\* PredictionEngine.getEffectiveness(moveType, targetTypes)
RECURSIVE getEffectiveness(_, _)
getEffectiveness(moveType, targetTypes) ==
    IF targetTypes = <<>> THEN Whole(1)
    ELSE LET rest == getEffectiveness(moveType, SubSeq(targetTypes, 1, Len(targetTypes) - 1))
             type == targetTypes[Len(targetTypes)]
             doubled(e, chart) == IF listed(chart, "double", type) THEN Times(e, Whole(2)) ELSE e
             halved(e, chart) == IF listed(chart, "half", type) THEN Times(e, Frac(1, 2)) ELSE e
             zeroed(e, chart) == IF listed(chart, "zero", type) THEN Times(e, Whole(0)) ELSE e
         IN  IF moveType \in DOMAIN TYPE_CHART
             THEN zeroed(halved(doubled(rest, TYPE_CHART[moveType]), TYPE_CHART[moveType]), TYPE_CHART[moveType])
             ELSE rest

\* a fighter as calculateDamage reads it: baseStats and stats are <<>> when
\* null or absent and <<record>> otherwise; an absent status, item or tera
\* type is '', an absent hp is 0
Fighter(baseStats, stats, types, boosts, ability, item, hp, status) ==
    [ baseStats |-> baseStats, stats |-> stats, types |-> types, boosts |-> boosts,
      ability |-> ability, item |-> item, hp |-> hp, status |-> status,
      isTerastallized |-> FALSE, teraType |-> "" ]

\* stats.<key> in arithmetic: undefined becomes NaN
StatOf(stats, key) == IF key \in DOMAIN stats THEN Whole(stats[key]) ELSE NaN

\* boosts[key] || 0
BoostOf(boosts, key) == IF key \in DOMAIN boosts THEN boosts[key] ELSE 0

\* a guard that looks at the power of the move only
isNoDamageByPower(move) == move.bp = 0

\* line 1065: !move.bp || move.bp === 0 || move.cat === 'Status'
isNoDamage(move) == move.bp = 0 \/ move.cat = "Status"

\* lines 1069-1080: the power after the special cases
effectivePower(attacker, defender, move) ==
    LET knock(bp) == IF move.name = "Knock Off" /\ defender.item # "" THEN 97 ELSE bp
        facade(bp) == IF move.name = "Facade" /\ attacker.status # "" THEN 140 ELSE bp
        hex(bp) == IF move.name = "Hex" /\ defender.status # "" THEN 130 ELSE bp
        acrobatics(bp) == IF move.name = "Acrobatics" /\ attacker.item = "" THEN 110 ELSE bp
        fixed(bp) ==
            CASE move.name = "Dragon Darts" -> 100
              [] move.name = "Dual Wingbeat" -> 80
              [] move.name = "Surging Strikes" -> 75
              [] move.name = "Triple Axel" -> 120
              [] OTHER -> bp
    IN  fixed(acrobatics(hex(facade(knock(move.bp)))))

\* a boost stage applied after it is clamped to -6..6
boostedStatClamped(stat, boost) ==
    IF boost > 0 THEN Floor(Over(Times(stat, Whole(2 + Min(6, boost))), Whole(2)))
    ELSE IF boost < 0 THEN Floor(Over(Times(stat, Whole(2)), Whole(2 - Max(-6, boost))))
    ELSE stat

\* lines 1113-1124: a stat after its boost stage
boostedStat(stat, boost) ==
    IF boost > 0 THEN Floor(Over(Times(stat, Whole(2 + boost)), Whole(2)))
    ELSE IF boost < 0 THEN Floor(Over(Times(stat, Whole(2)), Whole(2 - boost)))
    ELSE stat

\* lines 1088-1096, 1113-1118, 1127-1130: the attacking stat
attackStat(attacker, defender, move) ==
    LET isPhysical == move.cat = "Physical"
        key == IF isPhysical THEN "atk" ELSE "spa"
        raw == IF attacker.stats # <<>> THEN StatOf(attacker.stats[1], key)
               ELSE IF attacker.baseStats # <<>>
               THEN calcStat(attacker.baseStats[1][key], 252, 31, Whole(1), Level, FALSE)
               ELSE Whole(200)
    IN  IF move.name = "Body Press"
        THEN (IF defender.baseStats # <<>>
              THEN calcStat(attacker.baseStats[1].def, 252, 31, Whole(1), Level, FALSE)
              ELSE Whole(200))
        ELSE boostedStat(raw, BoostOf(attacker.boosts, key))

\* lines 1098-1110, 1119-1124: the defending stat
defenseStat(defender, move) ==
    LET isPhysical == move.cat = "Physical"
        statKey == IF isPhysical THEN "def" ELSE "spd"
        actualKey == IF move.name = "Psyshock" THEN "def" ELSE statKey
        raw == IF defender.stats # <<>> THEN StatOf(defender.stats[1], actualKey)
               ELSE IF defender.baseStats # <<>>
               THEN calcStat(defender.baseStats[1][actualKey], 252, 31, Whole(1), Level, FALSE)
               ELSE Whole(200)
    IN  boostedStat(raw, BoostOf(defender.boosts, statKey))

\* line 1128: attacker.baseStats.def is read of a null baseStats
bodyPressThrows(attacker, defender, move) ==
    move.name = "Body Press" /\ defender.baseStats # <<>> /\ attacker.baseStats = <<>>

\* lines 1134-1135, 1232-1233: the defender's maximum HP
maxHPOf(defender) ==
    IF defender.baseStats # <<>>
    THEN calcStat(defender.baseStats[1].hp, 252, 31, Whole(1), Level, TRUE)
    ELSE Whole(400)

\* the core damage formula on a power kept in seven bits
baseDamageSevenBits(bp, atkStat, defStat) ==
    Floor(Plus(Over(Floor(Over(Times(Whole(((2 * Level) \div 5 + 2) * (bp % 128)), atkStat), defStat)), Whole(50)), Whole(2)))

\* line 1141: the core damage formula
baseDamage(bp, atkStat, defStat) ==
    Floor(Plus(Over(Floor(Over(Times(Whole(((2 * Level) \div 5 + 2) * bp), atkStat), defStat)), Whole(50)), Whole(2)))

\* a same-type bonus that takes the tera type in place of the original types
stabOfTeraTypeOnly(attacker, move) ==
    LET stab == IF attacker.isTerastallized /\ attacker.teraType # ""
                THEN (IF attacker.teraType = move.type THEN Frac(3, 2) ELSE Whole(1))
                ELSE IF \E i \in 1..Len(attacker.types) : attacker.types[i] = move.type THEN Frac(3, 2)
                ELSE Whole(1)
    IN  IF attacker.ability = "Adaptability" /\ Less(Whole(1), stab) THEN Whole(2) ELSE stab

\* lines 1144-1163: the same-type bonus
stabOf(attacker, move) ==
    LET InTypes == \E i \in 1..Len(attacker.types) : attacker.types[i] = move.type
        stab == IF attacker.isTerastallized /\ attacker.teraType # ""
                THEN (IF InTypes THEN (IF attacker.teraType = move.type THEN Whole(2) ELSE Frac(3, 2))
                      ELSE IF attacker.teraType = move.type THEN Frac(3, 2)
                      ELSE Whole(1))
                ELSE IF InTypes THEN Frac(3, 2)
                ELSE Whole(1)
    IN  IF attacker.ability = "Adaptability" /\ Less(Whole(1), stab) THEN Whole(2) ELSE stab

\* lines 1166-1181: the type effectiveness
effectivenessOf(attacker, defender, move) ==
    LET defTypes == IF defender.isTerastallized /\ defender.teraType # ""
                    THEN << defender.teraType >> ELSE defender.types
        plain == IF move.name = "Tera Blast" /\ attacker.isTerastallized
                 THEN getEffectiveness(attacker.teraType, defTypes)
                 ELSE getEffectiveness(move.type, defTypes)
    IN  IF move.name = "Freeze-Dry" /\ (\E i \in 1..Len(defTypes) : defTypes[i] = "Water")
        THEN Times(plain, Whole(2)) ELSE plain

\* lines 1184-1190
weatherMod(field, move) ==
    CASE field.weather = "Sun" /\ move.type = "Fire" -> Frac(3, 2)
      [] field.weather = "Sun" /\ move.type = "Water" -> Frac(1, 2)
      [] field.weather = "Rain" /\ move.type = "Water" -> Frac(3, 2)
      [] field.weather = "Rain" /\ move.type = "Fire" -> Frac(1, 2)
      [] OTHER -> Whole(1)

\* lines 1193-1199
terrainMod(field, move) ==
    CASE field.terrain = "Electric" /\ move.type = "Electric" -> Frac(13, 10)
      [] field.terrain = "Grassy" /\ move.type = "Grass" -> Frac(13, 10)
      [] field.terrain = "Psychic" /\ move.type = "Psychic" -> Frac(13, 10)
      [] field.terrain = "Misty" /\ move.type = "Dragon" -> Frac(1, 2)
      [] OTHER -> Whole(1)

\* lines 1202-1211
abilityMod(attacker, move, bp) ==
    LET isPhysical == move.cat = "Physical"
    IN  CASE attacker.ability = "Beads of Ruin" /\ ~isPhysical -> Frac(133, 100)
          [] attacker.ability = "Sword of Ruin" /\ isPhysical -> Frac(133, 100)
          [] attacker.ability = "Tablets of Ruin" /\ isPhysical -> Frac(3, 4)
          [] attacker.ability = "Vessel of Ruin" /\ ~isPhysical -> Frac(3, 4)
          [] attacker.ability = "Huge Power" /\ isPhysical -> Whole(2)
          [] attacker.ability = "Technician" /\ bp <= 60 -> Frac(3, 2)
          [] attacker.ability = "Sharpness" /\ "slicing" \in move.flags -> Frac(3, 2)
          [] attacker.ability = "Iron Fist" /\ "fist" \in move.flags -> Frac(6, 5)
          [] attacker.ability = "Punk Rock" /\ "sound" \in move.flags -> Frac(13, 10)
          [] OTHER -> Whole(1)

\* lines 1214-1219
itemMod(attacker, move, effectiveness) ==
    LET isPhysical == move.cat = "Physical"
    IN  CASE attacker.item = "Choice Band" /\ isPhysical -> Frac(3, 2)
          [] attacker.item = "Choice Specs" /\ ~isPhysical -> Frac(3, 2)
          [] attacker.item = "Life Orb" -> Frac(13, 10)
          [] attacker.item = "Expert Belt" /\ AtLeast(effectiveness, Whole(2)) -> Frac(6, 5)
          [] attacker.item = "Black Glasses" /\ move.type = "Dark" -> Frac(6, 5)
          [] OTHER -> Whole(1)

\* lines 1222-1225: the later assignment wins
defMod(defender, move) ==
    IF defender.item = "Assault Vest" /\ move.cat # "Physical" THEN Frac(667, 1000)
    ELSE IF defender.item = "Eviolite" THEN Frac(667, 1000)
    ELSE IF defender.ability = "Multiscale" /\ defender.hp >= 99 THEN Frac(1, 2)
    ELSE Whole(1)

\* the result of calculateDamage; the zero result has no effectiveness
Damage(min, max, effectiveness) == [threw |-> FALSE, min |-> min, max |-> max, effectiveness |-> effectiveness]
DamageThrew == [threw |-> TRUE, min |-> NaN, max |-> NaN, effectiveness |-> NaN]

\* lines 1228-1243: the percentages of the final damage
damagePercent(baseDmg, totalMod, maxHP, effectiveness) ==
    LET finalDmg == Floor(Times(baseDmg, totalMod))
    IN  Damage(AtLeastZero(Floor(Times(Over(Over(Times(finalDmg, Whole(85)), Whole(100)), maxHP), Whole(100)))),
               AtLeastZero(Floor(Times(Over(finalDmg, maxHP), Whole(100)))),
               effectiveness)

\* lines 1141-1243: the damage of a move of power bp for an attacking and
\* a defending stat
damageOfStats(attacker, defender, move, field, bp, atkStat, defStat) ==
    LET effectiveness == effectivenessOf(attacker, defender, move)
        totalMod == Times(Times(Times(Times(Times(Times(
                        stabOf(attacker, move), effectiveness), weatherMod(field, move)),
                        terrainMod(field, move)), abilityMod(attacker, move, bp)),
                        itemMod(attacker, move, effectiveness)), defMod(defender, move))
    IN  damagePercent(baseDamage(bp, atkStat, defStat), totalMod, maxHPOf(defender), effectiveness)

\* lines 1084-1243: the damage of a move of power bp
damageOfPower(attacker, defender, move, field, bp) ==
    damageOfStats(attacker, defender, move, field, bp,
                  attackStat(attacker, defender, move), defenseStat(defender, move))

\* calculateDamage(attacker, defender, move, field), lines 1064-1244
calculateDamage(attacker, defender, move, field) ==
    IF isNoDamage(move) THEN Damage(Whole(0), Whole(0), NaN)
    ELSE IF bodyPressThrows(attacker, defender, move) THEN DamageThrew
    ELSE IF move.name = "Seismic Toss"
    THEN Damage(Times(Over(Whole(Level), maxHPOf(defender)), Whole(100)),
                Times(Over(Whole(Level), maxHPOf(defender)), Whole(100)), NaN)
    ELSE damageOfPower(attacker, defender, move, field, effectivePower(attacker, defender, move))
\* ---------------------------------------------------------------------
\* The damage calculator on its own: the arguments are drawn from the
\* sets below, calculateDamage is applied to them, and the power of the
\* move is raised step by step
\* ---------------------------------------------------------------------
MaxPower == 130
PowerSteps == {5, 40}

UrshifuStats == [hp |-> 100, atk |-> 130, def |-> 100, spa |-> 63, spd |-> 60, spe |-> 97]

\* the base stats of the fighters of src/test.js, Test 5, and of an attacker
\* of base Attack 145
LandorusStats == [hp |-> 89, atk |-> 145, def |-> 90, spa |-> 105, spd |-> 80, spe |-> 91]
GholdengoStats == [hp |-> 87, atk |-> 60, def |-> 95, spa |-> 133, spd |-> 91, spe |-> 84]
HeatranStats == [hp |-> 91, atk |-> 90, def |-> 106, spa |-> 130, spd |-> 106, spe |-> 77]
DragapultStats == [hp |-> 88, atk |-> 120, def |-> 75, spa |-> 100, spd |-> 75, spe |-> 142]
NoBoostsGiven == [b \in {} |-> 0]

\* a fighter that has terastallized into a type
Terastallized(fighter, teraType) == [fighter EXCEPT !.isTerastallized = TRUE, !.teraType = teraType]

\* attackers and defenders: built from base stats, from the stats of an
\* entry, from the empty stats of an entry of an unknown species, and
\* without either
Attackers ==
    { Fighter(<<UrshifuStats>>, <<>>, <<"Fighting", "Dark">>, NoBoosts, ability, item, 100, "") :
          ability \in {"Unseen Fist", "Technician", "Huge Power"}, item \in {"", "Life Orb"} }
    \cup { Fighter(<<UrshifuStats>>, <<UrshifuStats>>, <<"Fighting", "Water">>,
                   [NoBoosts EXCEPT !.atk = 2], "Technician", "Choice Band", 100, "brn"),
           Fighter(<<UrshifuStats>>, <<NoStats>>, <<"???">>, NoBoosts, "", "", 100, ""),
           Fighter(<<>>, <<>>, <<"Normal">>, [b \in {} |-> 0], "Technician", "", 100, ""),
           Fighter(<<UrshifuStats>>, <<>>, <<"Fighting", "Dark">>, [NoBoosts EXCEPT !.atk = 8, !.spa = -7], "", "", 100, ""),
           Terastallized(Fighter(<<UrshifuStats>>, <<>>, <<"Fighting", "Dark">>, NoBoosts, "Unseen Fist", "", 100, ""), "Dark"),
           Terastallized(Fighter(<<UrshifuStats>>, <<>>, <<"Fighting", "Dark">>, NoBoosts, "Unseen Fist", "", 100, ""), "Water"),
           Terastallized(Fighter(<<UrshifuStats>>, <<>>, <<"Fighting", "Dark">>, NoBoosts, "Adaptability", "", 100, ""), "Water"),
           Fighter(<<UrshifuStats>>, <<>>, <<"Fighting", "Dark">>, NoBoosts, "Adaptability", "", 100, ""),
           Fighter(<<LandorusStats>>, <<>>, <<"Ground", "Flying">>, NoBoostsGiven, "Intimidate", "", 100, ""),
           Fighter(<<GholdengoStats>>, <<>>, <<"Steel", "Ghost">>, NoBoostsGiven, "Good as Gold", "Choice Specs", 100, "") }

Defenders ==
    { Fighter(<<UrshifuStats>>, <<>>, <<"Fighting", "Dark">>, NoBoosts, "Unseen Fist", "", 100, ""),
      Fighter(<<UrshifuStats>>, <<UrshifuStats>>, <<"Fighting", "Water">>,
              [NoBoosts EXCEPT !.def = -1], "Multiscale", "Eviolite", 100, "par"),
      Fighter(<<>>, <<>>, <<"Normal">>, [b \in {} |-> 0], "", "", 40, ""),
      Fighter(<<UrshifuStats>>, <<>>, <<"Fighting", "Dark">>, [NoBoosts EXCEPT !.def = -7, !.spd = 3], "", "", 100, ""),
      Fighter(<<HeatranStats>>, <<>>, <<"Fire", "Steel">>, NoBoostsGiven, "Flash Fire", "", 100, ""),
      Fighter(<<DragapultStats>>, <<>>, <<"Dragon", "Ghost">>, NoBoostsGiven, "Clear Body", "", 100, "") }

\* moves of the database, the record of a name that is not in it, and
\* records no database entry has
DamageMoves ==
    { lookupMove(name)[1] : name \in {"Close Combat", "Knock Off", "Surging Strikes", "Aqua Jet",
                                      "Psyshock", "Swords Dance", "Seismic Toss", "Splash", "Earthquake",
                                      "Body Press"} }
    \cup { Move("Taunt", 80, "Dark", "Status", 0, {"status"}),
           Move("Seismic Toss", 100, "Fighting", "Physical", 0, {"contact"}),
           Move("Pound", 55, "Normal", "Physical", 0, {"contact"}),
           Move("Shadow Ball", 80, "Ghost", "Special", 0, {}) }

DamageFields == { [InitState.field EXCEPT !.weather = w] : w \in {"", "Rain"} }

InitDamage ==
    /\ state = InitState
    /\ processedLogCount = 0
    /\ trainers = [near |-> Null, far |-> Null]
    /\ history = <<>>
    /\ observing = FALSE
    /\ prev = InitState
    /\ lastObs = [op |-> "init", input |-> <<>>]
    /\ parsedLog = <<>>
    /\ sighted = {}
    /\ nObs = 0
    /\ snapshot = NoSnapshot
    /\ report = NoReport
    /\ content = NoContent
    /\ calc \in { [ op |-> "input", attacker |-> a, defender |-> d, move |-> m, field |-> f,
                    result |-> Damage(Whole(0), Whole(0), NaN), before |-> Damage(Whole(0), Whole(0), NaN),
                    from |-> m.bp, stab |-> NaN ] :
                  a \in Attackers, d \in Defenders, m \in DamageMoves, f \in DamageFields }

\* calculateDamage(attacker, defender, move, field); stab is the value of its
\* local variable of that name, when the move has come to it
Calculate ==
    /\ calc.op = "input"
    /\ UNCHANGED content
    /\ calc' = [calc EXCEPT !.op = "calculate",
                            !.result = calculateDamage(calc.attacker, calc.defender, calc.move, calc.field),
                            !.stab = IF isNoDamage(calc.move) THEN NaN ELSE stabOf(calc.attacker, calc.move)]
    /\ UNCHANGED <<state, processedLogCount, trainers, history, observing, prev, lastObs, parsedLog,
                   sighted, nObs, snapshot, report>>

\* calculateDamage of the same arguments with a move of a higher power
RaisePower(step) ==
    /\ calc.op \in {"calculate", "raise"}
    /\ calc.move.bp + step <= MaxPower
    /\ UNCHANGED content
    /\ calc' = [calc EXCEPT !.op = "raise",
                            !.move = [calc.move EXCEPT !.bp = @ + step],
                            !.before = calc.result,
                            !.from = calc.move.bp,
                            !.result = calculateDamage(calc.attacker, calc.defender,
                                                       [calc.move EXCEPT !.bp = @ + step], calc.field)]
    /\ UNCHANGED <<state, processedLogCount, trainers, history, observing, prev, lastObs, parsedLog,
                   sighted, nObs, snapshot, report>>

NextDamage ==
    \/ Calculate
    \/ \E step \in PowerSteps : RaisePower(step)

SpecDamage == InitDamage /\ [][NextDamage]_vars
\* ---------------------------------------------------------------------
\* PredictionEngine: the analysis of a battle state
\* ---------------------------------------------------------------------
\* team[key]: <<entry>>, or <<>> for undefined
monOf(team, key) == IF key # Null /\ HasKey(team, key) THEN << Get(team, key) >> ELSE <<>>

\* lines 1018-1049: the move classes
isSetupMove(moveName) ==
    moveName \in { "Swords Dance", "Dragon Dance", "Quiver Dance", "Calm Mind", "Nasty Plot",
                   "Shell Smash", "Bulk Up", "Shift Gear", "Victory Dance", "Agility",
                   "Iron Defense", "Amnesia", "Autotomize", "Coil", "Growth", "Hone Claws",
                   "Tail Glow", "Work Up", "Clangorous Soul", "No Retreat", "Tidy Up" }
isRecoveryMove(moveName) ==
    moveName \in { "Recover", "Roost", "Soft-Boiled", "Milk Drink", "Slack Off",
                   "Shore Up", "Synthesis", "Morning Sun", "Moonlight", "Wish", "Life Dew" }
isPivotMove(moveName) ==
    moveName \in { "U-turn", "Volt Switch", "Flip Turn", "Parting Shot", "Chilly Reception",
                   "Baton Pass", "Teleport" }
isPriorityMove(moveName) == lookupMove(moveName) # <<>> /\ lookupMove(moveName)[1].priority > 0
isHazardMove(moveName) ==
    moveName \in { "Stealth Rock", "Spikes", "Toxic Spikes", "Sticky Web", "Ceaseless Edge", "Stone Axe" }

\* lines 997-1005
isWeakToSTAB(defenderTypes, attackerTypes) ==
    \E i \in 1..Len(attackerTypes) : AtLeast(getEffectiveness(attackerTypes[i], defenderTypes), Whole(2))
resistsSTAB(defenderTypes, attackerTypes) ==
    \A i \in 1..Len(attackerTypes) : AtLeast(Frac(1, 2), getEffectiveness(attackerTypes[i], defenderTypes))

\* getSpeedRange(pokemonName), lines 1007-1015
getSpeedRange(pokemonName) ==
    IF lookupPokemon(pokemonName) = <<>> THEN [min |-> Whole(100), max |-> Whole(100)]
    ELSE [ min |-> calcStat(lookupPokemon(pokemonName)[1].baseStats.spe, 0, 0, Frac(9, 10), 100, FALSE),
           max |-> calcStat(lookupPokemon(pokemonName)[1].baseStats.spe, 252, 31, Frac(11, 10), 100, FALSE) ]

\* the number of the indexes of a list that satisfy a test
CountOf(n, ok) == Cardinality({ i \in 1..n : ok[i] })

\* the number of the moves of the entries of a team that are in a class
RECURSIVE movesIn(_, _)
movesIn(team, class) ==
    IF team = <<>> THEN 0
    ELSE movesIn(SubSeq(team, 1, Len(team) - 1), class)
         + Cardinality({ i \in 1..Len(team[Len(team)].moves) : class[team[Len(team)].moves[i]] })

\* the names of the moves the entries of a team hold
TeamMoves(team) == UNION { Range(team[i].moves) : i \in 1..Len(team) }

\* detectArchetype with the STALL test before the HO test
detectArchetypeStallFirst(team) ==
    LET data(i) == lookupPokemon(team[i].name)
        fastCount == CountOf(Len(team), [i \in 1..Len(team) |->
                         data(i) # <<>> /\ data(i)[1].baseStats.spe > 100])
        bulkScore == CountOf(Len(team), [i \in 1..Len(team) |->
                         data(i) # <<>> /\ data(i)[1].baseStats.hp + data(i)[1].baseStats.def
                                            + data(i)[1].baseStats.spd > 280])
        setupMovesSeen == movesIn(team, [m \in TeamMoves(team) |-> isSetupMove(m)])
        recoveryCount == movesIn(team, [m \in TeamMoves(team) |-> isRecoveryMove(m)])
    IN  IF team = <<>> THEN "BALANCE"
        ELSE IF recoveryCount >= 3 \/ bulkScore >= 3 THEN "STALL"
        ELSE IF fastCount >= 3 \/ setupMovesSeen >= 2 THEN "HO"
        ELSE "BALANCE"

\* detectArchetype asking for a fourth recovery move
detectArchetypeFourRecoveries(team) ==
    LET data(i) == lookupPokemon(team[i].name)
        fastCount == CountOf(Len(team), [i \in 1..Len(team) |->
                         data(i) # <<>> /\ data(i)[1].baseStats.spe > 100])
        bulkScore == CountOf(Len(team), [i \in 1..Len(team) |->
                         data(i) # <<>> /\ data(i)[1].baseStats.hp + data(i)[1].baseStats.def
                                            + data(i)[1].baseStats.spd > 280])
        setupMovesSeen == movesIn(team, [m \in TeamMoves(team) |-> isSetupMove(m)])
        recoveryCount == movesIn(team, [m \in TeamMoves(team) |-> isRecoveryMove(m)])
    IN  IF team = <<>> THEN "BALANCE"
        ELSE IF fastCount >= 3 \/ setupMovesSeen >= 2 THEN "HO"
        ELSE IF recoveryCount >= 4 \/ bulkScore >= 3 THEN "STALL"
        ELSE "BALANCE"

\* detectArchetype(team), lines 1252-1278
detectArchetype(team) ==
    LET data(i) == lookupPokemon(team[i].name)
        fastCount == CountOf(Len(team), [i \in 1..Len(team) |->
                         data(i) # <<>> /\ data(i)[1].baseStats.spe > 100])
        bulkScore == CountOf(Len(team), [i \in 1..Len(team) |->
                         data(i) # <<>> /\ data(i)[1].baseStats.hp + data(i)[1].baseStats.def
                                            + data(i)[1].baseStats.spd > 280])
        setupMovesSeen == movesIn(team, [m \in TeamMoves(team) |-> isSetupMove(m)])
        recoveryCount == movesIn(team, [m \in TeamMoves(team) |-> isRecoveryMove(m)])
    IN  IF team = <<>> THEN "BALANCE"
        ELSE IF fastCount >= 3 \/ setupMovesSeen >= 2 THEN "HO"
        ELSE IF recoveryCount >= 3 \/ bulkScore >= 3 THEN "STALL"
        ELSE "BALANCE"

\* lines 1318-1322, 1348-1353: a bench member of the opponent, not fainted,
\* whose types resist the types of our active creature
hasResistOnBench(st, myData) ==
    \E i \in 1..Len(st.opponentTeam) :
        /\ st.opponentTeam[i].name # st.opponentActive
        /\ st.opponentTeam[i].hp > 0
        /\ lookupPokemon(st.opponentTeam[i].name) # <<>>
        /\ resistsSTAB(myData.types, lookupPokemon(st.opponentTeam[i].name)[1].types)

\* a contribution to a score: the points when the condition holds
Points(cond, points) == IF cond THEN points ELSE 0

\* lines 1306-1364: the score of predictSwitch before it is clamped
switchScore(st, oppData, myData, oppMon) ==
    LET lowHP == oppMon # <<>> /\ oppMon[1].hp < 30 /\ oppMon[1].hp > 0
        weak == isWeakToSTAB(myData.types, oppData.types)
    IN  Points(weak, 40)
        + Points(lowHP, 25)
        + Points(lowHP /\ hasResistOnBench(st, myData), 15)
        + Points((myData.baseStats.atk > 120 \/ myData.baseStats.spa > 120) /\ weak, 15)
        - Points(resistsSTAB(myData.types, oppData.types), 20)
        - Points(~hasResistOnBench(st, myData), 15)
        + Points(detectArchetype(st.opponentTeam) = "STALL", 10)
        - Points(detectArchetype(st.opponentTeam) = "HO", 5)

\* lines 1366-1376: the score clamped to 0..100 and its class
classified(score) ==
    [ probability |-> IF score >= 40 THEN "HIGH" ELSE IF score >= 20 THEN "MEDIUM" ELSE "LOW",
      score |-> score ]

\* predictSwitch(state), lines 1286-1377; the text of the reason is left out
predictSwitch(st) ==
    IF st.opponentActive = Null \/ st.myActive = Null THEN [probability |-> "LOW", score |-> 0]
    ELSE IF lookupPokemon(st.opponentActive) = <<>> \/ lookupPokemon(st.myActive) = <<>>
    THEN [probability |-> "LOW", score |-> 0]
    ELSE classified(Max(0, Min(100, switchScore(st, lookupPokemon(st.opponentActive)[1],
                                                lookupPokemon(st.myActive)[1],
                                                monOf(st.opponentTeam, st.opponentActive)))))

\* a list given by its elements, as a tuple
Listed(list) == SubSeq(list, 1, Len(list))

\* Math.round
Round(x) == Floor(Plus(x, Frac(1, 2)))

\* lines 1404-1407: the moves of one common set pushed while fewer than 4
\* moves are held
RECURSIVE fillFromSet(_, _, _)
fillFromSet(possibleMoves, setMoves, n) ==
    IF n = 0 THEN possibleMoves
    ELSE Only({ IF ~(\E i \in 1..Len(sofar) : sofar[i] = setMoves[n]) /\ Len(sofar) < 4
                THEN Append(sofar, setMoves[n]) ELSE sofar :
                sofar \in { fillFromSet(possibleMoves, setMoves, n - 1) } })

\* lines 1402-1410: the common sets in order, until 4 moves are held
RECURSIVE fillFromSets(_, _, _)
fillFromSets(possibleMoves, commonSets, from) ==
    IF from > Len(commonSets) \/ Len(possibleMoves) >= 4 THEN possibleMoves
    ELSE fillFromSets(fillFromSet(possibleMoves, commonSets[from].moves, Len(commonSets[from].moves)),
                      commonSets, from + 1)

\* lines 1398-1411: the known moves and the moves assumed from the common sets
possibleMovesOf(moves, oppData) ==
    IF Len(moves) < 4 THEN fillFromSets(moves, oppData.commonSets, 1) ELSE moves

\* lookupMove(moveName), or the record made up in its place when it is null
moveDataOf(moveName) ==
    IF lookupMove(moveName) = <<>> THEN unknownMove(moveName) ELSE lookupMove(moveName)[1]

\* mon?.<field> || fallback, for a text field
TextOr(mon, field, fallback) == IF mon # <<>> /\ mon[1][field] # "" THEN mon[1][field] ELSE fallback

\* abilities[0]
firstAbility(data) == IF data.abilities = <<>> THEN "" ELSE data.abilities[1]

\* lines 1422-1440: the opponent's active as the attacker, ours as the defender
oppAttackerOf(oppMon, oppData) ==
    Fighter(<< oppData.baseStats >>,
            IF oppMon # <<>> THEN << oppMon[1].stats >> ELSE <<>>,
            IF oppMon # <<>> THEN oppMon[1].types ELSE oppData.types,
            IF oppMon # <<>> THEN oppMon[1].boosts ELSE [b \in {} |-> 0],
            TextOr(oppMon, "ability", firstAbility(oppData)),
            TextOr(oppMon, "item", ""), 0, "")
myDefenderOf(myMon, myData) ==
    Fighter(IF myData # <<>> THEN << myData[1].baseStats >> ELSE <<>>,
            IF myMon # <<>> THEN << myMon[1].stats >> ELSE <<>>,
            IF myMon # <<>> THEN myMon[1].types ELSE IF myData # <<>> THEN myData[1].types ELSE <<>>,
            IF myMon # <<>> THEN myMon[1].boosts ELSE [b \in {} |-> 0],
            TextOr(myMon, "ability", ""),
            TextOr(myMon, "item", ""),
            IF myMon # <<>> /\ myMon[1].hp # 0 THEN myMon[1].hp ELSE 100,
            TextOr(myMon, "status", ""))

\* lines 1455-1465: the points for the type effectiveness of a candidate;
\* the tests are made in the order of the source
effectivenessPoints(dmg) ==
    IF AtLeast(dmg.effectiveness, Whole(2)) THEN 20
    ELSE IF AtLeast(Frac(1, 2), dmg.effectiveness) THEN -20
    ELSE IF Same(dmg.effectiveness, Whole(0)) THEN -50
    ELSE 0

\* lines 1444-1487: the score of one candidate move before it is clamped
candidateScore(moveName, moveData, dmg, oppMon, oppData, myMon, myData) ==
    25
    + (IF AtLeast(dmg.max, Whole(70)) THEN 30 ELSE IF AtLeast(dmg.max, Whole(40)) THEN 15 ELSE 0)
    + Points(\E i \in 1..Len(oppData.types) : oppData.types[i] = moveData.type, 10)
    + effectivenessPoints(dmg)
    + Points(isRecoveryMove(moveName) /\ oppMon # <<>> /\ oppMon[1].hp < 50, 25)
    + (IF ~isSetupMove(moveName) THEN 0
       ELSE IF ~isWeakToSTAB(IF myData # <<>> THEN myData[1].types ELSE <<>>, oppData.types) THEN 15
       ELSE -10)
    + (IF "status" \notin moveData.flags THEN 0
       ELSE IF TextOr(myMon, "status", "") = "" THEN 5
       ELSE -15)

\* lines 1414-1491: one candidate move with its damage and clamped score
candidateOf(st, moveName, oppMon, oppData, myMon, myData) ==
    Only({ [ name |-> moveName,
             probability |-> Max(5, Min(95, candidateScore(moveName, moveDataOf(moveName), dmg,
                                                           oppMon, oppData, myMon, myData))),
             damage |-> dmg ] :
           dmg \in { calculateDamage(oppAttackerOf(oppMon, oppData), myDefenderOf(myMon, myData),
                                     moveDataOf(moveName), st.field) } })

\* the sum of the probability fields
RECURSIVE totalOf(_)
totalOf(predictions) ==
    IF predictions = <<>> THEN 0
    ELSE totalOf(SubSeq(predictions, 1, Len(predictions) - 1)) + predictions[Len(predictions)].probability

\* lines 1495-1498: the probabilities as rounded percentages of their sum
normalizedBy(predictions, totalScore) ==
    Listed([ i \in 1..Len(predictions) |->
               [ predictions[i] EXCEPT !.probability =
                   IF totalScore > 0 THEN Round(Times(Over(Whole(@), Whole(totalScore)), Whole(100)))[1]
                   ELSE 25 ] ])
normalized(predictions) ==
    Only({ normalizedBy(predictions, totalScore) : totalScore \in { totalOf(predictions) } })

\* Array.prototype.sort with the comparator (a, b) => b.key - a.key: a
\* stable insertion; key gives the numbers, and a NaN difference leaves the
\* two elements in their order
RECURSIVE insertSorted(_, _, _, _)
insertSorted(sorted, keys, x, k) ==
    IF sorted = <<>> THEN [list |-> << x >>, keys |-> << k >>]
    ELSE IF Less(keys[Len(keys)], k)
    THEN Only({ [list |-> Append(rest.list, sorted[Len(sorted)]), keys |-> Append(rest.keys, keys[Len(keys)])] :
                rest \in { insertSorted(SubSeq(sorted, 1, Len(sorted) - 1),
                                        SubSeq(keys, 1, Len(keys) - 1), x, k) } })
    ELSE [list |-> Append(sorted, x), keys |-> Append(keys, k)]

RECURSIVE sortedDescending(_, _, _)
sortedDescending(list, keys, n) ==
    IF n = 0 THEN [list |-> <<>>, keys |-> <<>>]
    ELSE Only({ insertSorted(rest.list, rest.keys, list[n], keys[n]) :
                rest \in { sortedDescending(list, keys, n - 1) } })

\* the candidates of predictOpponentMoves for a list of possible moves
predictionsFor(st, possibleMoves, oppMon, oppData, myMon, myData) ==
    Only({ sortedDescending(predictions, Listed([i \in 1..Len(predictions) |-> Whole(predictions[i].probability)]),
                            Len(predictions)).list :
           predictions \in { normalized(Listed([ i \in 1..Len(possibleMoves) |->
                                 candidateOf(st, possibleMoves[i], oppMon, oppData, myMon, myData) ])) } })

\* what a function of the engine leaves behind: the state it was given, as
\* it is when the function returns, and the value it returns; threw says
\* that it raised an error instead
Returned(st, value) == [state |-> st, threw |-> FALSE, value |-> value]
Threw(st) == [state |-> st, threw |-> TRUE, value |-> <<>>]

\* a function that has calculated the damages of a list of candidates returns
\* the list, unless calculateDamage raised an error
Settled(st, list) ==
    IF \E i \in 1..Len(list) : list[i].damage.threw THEN Threw(st) ELSE Returned(st, list)

\* lines 1398-1411 for the state: the possible moves of the opponent's
\* active, whose species the knowledge base holds
possibleMovesIn(st) ==
    possibleMovesOf(IF monOf(st.opponentTeam, st.opponentActive) # <<>>
                    THEN monOf(st.opponentTeam, st.opponentActive)[1].moves ELSE <<>>,
                    lookupPokemon(st.opponentActive)[1])

\* lines 1413-1510: the predictions for the possible moves; after is the
\* state as building the list of possible moves has left it
predictedFor(st, after) ==
    Only({ Settled(after, list) :
           list \in { predictionsFor(st, possibleMovesIn(st),
                                     monOf(st.opponentTeam, st.opponentActive),
                                     lookupPokemon(st.opponentActive)[1],
                                     monOf(st.myTeam, st.myActive), lookupPokemon(st.myActive)) } })

\* lines 1413-1465: the candidates in the order they are scored, each with
\* the effectiveness calculateDamage reported and the points it earned
scoredCandidates(st) ==
    IF st.opponentActive = Null \/ st.myActive = Null THEN <<>>
    ELSE IF lookupPokemon(st.opponentActive) = <<>> THEN <<>>
    ELSE Listed([ i \in 1..Len(possibleMovesIn(st)) |->
            Only({ [ name |-> possibleMovesIn(st)[i],
                     effectiveness |-> dmg.effectiveness,
                     points |-> effectivenessPoints(dmg) ] :
                   dmg \in { calculateDamage(
                                oppAttackerOf(monOf(st.opponentTeam, st.opponentActive),
                                              lookupPokemon(st.opponentActive)[1]),
                                myDefenderOf(monOf(st.myTeam, st.myActive), lookupPokemon(st.myActive)),
                                moveDataOf(possibleMovesIn(st)[i]), st.field) } }) ])

\* a predictOpponentMoves that fills the list of known moves of the entry
\* itself
predictOpponentMovesInPlace(st) ==
    IF st.opponentActive = Null \/ st.myActive = Null THEN Returned(st, <<>>)
    ELSE IF lookupPokemon(st.opponentActive) = <<>> THEN Returned(st, <<>>)
    ELSE predictedFor(st, IF monOf(st.opponentTeam, st.opponentActive) = <<>> THEN st
                          ELSE [st EXCEPT !.opponentTeam[KeyIndex(st.opponentTeam, st.opponentActive)].moves =
                                              possibleMovesIn(st)])

\* predictOpponentMoves(state), lines 1385-1511: possibleMoves is a copy of
\* the known moves, so the entry keeps its list
predictOpponentMoves(st) ==
    IF st.opponentActive = Null \/ st.myActive = Null THEN Returned(st, <<>>)
    ELSE IF lookupPokemon(st.opponentActive) = <<>> THEN Returned(st, <<>>)
    ELSE predictedFor(st, st)

\* lines 1543-1544: the record used when lookupPokemon finds none
DefaultData ==
    [ baseStats |-> [hp |-> 80, atk |-> 80, def |-> 80, spa |-> 80, spd |-> 80, spe |-> 80],
      types |-> <<"Normal">>, abilities |-> <<>> ]

\* a lookup without the default record
dataOrNull(name) == lookupPokemon(name)

\* lookupPokemon(name) || { the default record }
dataOrDefault(name) == IF lookupPokemon(name) = <<>> THEN << DefaultData >> ELSE lookupPokemon(name)

\* lines 1527-1536: the answer while an active creature is missing
waitingAnswer(st) ==
    IF Len(st.myMoves) > 0
    THEN LET enabled == SelectSeq(st.myMoves, LAMBDA m : ~m.disabled)
             firstMove == IF enabled # <<>> THEN enabled[1] ELSE st.myMoves[1]
         IN  << << [ name |-> firstMove.name, score |-> Whole(0),
                     damage |-> Damage(Whole(0), Whole(0), NaN) ] >> >>
    ELSE <<>>

\* lines 1550-1555: the moves of the menu that are not disabled, else the
\* known moves of our active creature
availableMovesOf(st, myMon) ==
    IF Len(st.myMoves) > 0 THEN menuNames(SelectSeq(st.myMoves, LAMBDA m : ~m.disabled))
    ELSE IF myMon # <<>> THEN myMon[1].moves
    ELSE <<>>

\* lines 1570-1587: our active as the attacker, the opponent's as the defender
myAttackerOf(myMon, myData) ==
    Fighter(<< myData.baseStats >>,
            IF myMon # <<>> THEN << myMon[1].stats >> ELSE <<>>,
            IF myMon # <<>> THEN myMon[1].types ELSE myData.types,
            IF myMon # <<>> THEN myMon[1].boosts ELSE [b \in {} |-> 0],
            TextOr(myMon, "ability", firstAbility(myData)),
            TextOr(myMon, "item", ""), 0, "")
oppDefenderOf(oppMon, oppData) ==
    Fighter(<< oppData.baseStats >>,
            IF oppMon # <<>> THEN << oppMon[1].stats >> ELSE <<>>,
            IF oppMon # <<>> THEN oppMon[1].types ELSE oppData.types,
            IF oppMon # <<>> THEN oppMon[1].boosts ELSE [b \in {} |-> 0],
            TextOr(oppMon, "ability", firstAbility(oppData)),
            TextOr(oppMon, "item", ""),
            IF oppMon # <<>> /\ oppMon[1].hp # 0 THEN oppMon[1].hp ELSE 100,
            TextOr(oppMon, "status", ""))

\* x >= mon?.hp
ReachesHp(x, mon) == mon # <<>> /\ AtLeast(x, Whole(mon[1].hp))

\* lines 1610-1625: the move hits a possible switch-in super effectively
hitsSwitchIn(st, myAttacker, moveData) ==
    \E i \in 1..Len(st.opponentTeam) :
        /\ st.opponentTeam[i].name # st.opponentActive
        /\ st.opponentTeam[i].hp > 0
        /\ lookupPokemon(st.opponentTeam[i].name) # <<>>
        /\ AtLeast(calculateDamage(myAttacker,
                                   Fighter(<< lookupPokemon(st.opponentTeam[i].name)[1].baseStats >>, <<>>,
                                           lookupPokemon(st.opponentTeam[i].name)[1].types,
                                           [b \in {} |-> 0], "", "", 0, ""),
                                   moveData, st.field).effectiveness, Whole(2))

\* oppMovePredictions[0]?.damage?.max || 0
theirBestDmg(oppMovePredictions) ==
    IF oppMovePredictions = <<>> \/ IsNaN(oppMovePredictions[1].damage.max) THEN Whole(0)
    ELSE oppMovePredictions[1].damage.max

\* lines 1589-1680: the score of one move; a later rule adds to the score
\* of the earlier ones, the immunity rule replaces it
moveScore(st, moveName, moveData, dmg, myMon, oppMon, myAttacker, switchPrediction, oppMovePredictions) ==
    LET ko == IF ReachesHp(dmg.min, oppMon) THEN 50 ELSE IF ReachesHp(dmg.max, oppMon) THEN 30 ELSE 0
        pivot == Points(isPivotMove(moveName) /\ switchPrediction.probability = "HIGH", 25)
        coverage == Points(switchPrediction.probability = "HIGH" /\ hitsSwitchIn(st, myAttacker, moveData), 10)
        priority == IF isPriorityMove(moveName)
                       /\ Less(getSpeedRange(st.myActive).max, getSpeedRange(st.opponentActive).min)
                    THEN (IF ReachesHp(dmg.max, oppMon) THEN 40 ELSE 10)
                    ELSE 0
        setup == IF ~isSetupMove(moveName) THEN 0
                 ELSE IF Less(theirBestDmg(oppMovePredictions), Whole(35)) THEN 20 ELSE -10
        recovery == Points(/\ isRecoveryMove(moveName) /\ myMon # <<>> /\ myMon[1].hp < 50
                           /\ Less(theirBestDmg(oppMovePredictions), Whole(40)), 15)
        hazard == Points(/\ isHazardMove(moveName) /\ st.turnNumber <= 3
                         /\ (~st.field.opponentHazards.stealthRock \/ moveName # "Stealth Rock"), 10)
    IN  IF Same(dmg.effectiveness, Whole(0)) THEN Whole(-50)
        ELSE Round(Plus(dmg.max, Whole(ko + pivot + coverage + priority + setup + recovery + hazard)))

\* lines 1562-1687: one recommended move
recommendationOf(st, moveName, myMon, oppMon, myData, oppData, switchPrediction, oppMovePredictions) ==
    Only({ [ name |-> moveName,
             score |-> moveScore(st, moveName, moveDataOf(moveName), dmg, myMon, oppMon,
                                 myAttackerOf(myMon, myData), switchPrediction, oppMovePredictions),
             damage |-> dmg ] :
           dmg \in { calculateDamage(myAttackerOf(myMon, myData), oppDefenderOf(oppMon, oppData),
                                     moveDataOf(moveName), st.field) } })

\* lines 1562-1694: the recommendations for the available moves, sorted
recommendationsFor(st, myData, oppData, oppMovePredictions) ==
    Only({ IF \E i \in 1..Len(recommendations) : recommendations[i].damage.threw THEN Threw(st)
           ELSE Returned(st, << sortedDescending(recommendations,
                                                 Listed([i \in 1..Len(recommendations) |-> recommendations[i].score]),
                                                 Len(recommendations)).list >>) :
           recommendations \in
               { Listed([ i \in 1..Len(availableMoves) |->
                            recommendationOf(st, availableMoves[i], monOf(st.myTeam, st.myActive),
                                             monOf(st.opponentTeam, st.opponentActive), myData, oppData,
                                             switchPrediction, oppMovePredictions) ]) :
                 availableMoves \in { availableMovesOf(st, monOf(st.myTeam, st.myActive)) },
                 switchPrediction \in { predictSwitch(st) } } })

\* recommendMove(state), lines 1519-1695; the value is <<>> for null and
\* <<list>> otherwise.  myData.baseStats of a null myData raises an error.
recommendMoveAfter(st, predicted) ==
    IF predicted.threw THEN Threw(predicted.state)
    ELSE IF availableMovesOf(predicted.state, monOf(predicted.state.myTeam, st.myActive)) = <<>>
    THEN Returned(predicted.state, <<>>)
    ELSE IF dataOrDefault(st.myActive) = <<>> \/ dataOrDefault(st.opponentActive) = <<>>
    THEN Threw(predicted.state)
    ELSE recommendationsFor(predicted.state, dataOrDefault(st.myActive)[1],
                            dataOrDefault(st.opponentActive)[1], predicted.value)
recommendMove(st) ==
    IF st.myActive = Null \/ st.opponentActive = Null THEN Returned(st, waitingAnswer(st))
    ELSE Only({ recommendMoveAfter(st, predicted) : predicted \in { predictOpponentMoves(st) } })

\* analyzeSpeed(state), lines 1702-1753: <<>> for null; the text of the
\* detail is left out, and an undefined priority flag is FALSE
analyzeSpeed(st) ==
    IF st.myActive = Null \/ st.opponentActive = Null THEN <<>>
    ELSE LET mySpeed == getSpeedRange(st.myActive)
             oppSpeed == getSpeedRange(st.opponentActive)
             plain == IF Less(oppSpeed.max, mySpeed.max) THEN "FASTER"
                      ELSE IF Less(mySpeed.max, oppSpeed.max) THEN "OUTSPED"
                      ELSE "SPEED_TIE"
             swapped == IF plain = "FASTER" THEN "OUTSPED" ELSE IF plain = "OUTSPED" THEN "FASTER" ELSE plain
             hasPriority(mon) == mon # <<>> /\ \E i \in 1..Len(mon[1].moves) : isPriorityMove(mon[1].moves[i])
         IN  << [ verdict |-> IF st.field.trickRoom THEN swapped ELSE plain,
                  mySpeed |-> mySpeed, oppSpeed |-> oppSpeed,
                  myPriority |-> hasPriority(monOf(st.myTeam, st.myActive)),
                  oppPriority |-> hasPriority(monOf(st.opponentTeam, st.opponentActive)),
                  trickRoom |-> st.field.trickRoom ] >>

\* lines 1807-1819, 1854-1865: the highest max% of the known moves of a list
RECURSIVE bestDamage(_, _, _, _, _)
bestDamage(attacker, defender, moves, field, n) ==
    IF n = 0 THEN [threw |-> FALSE, max |-> Whole(0)]
    ELSE Only({ IF lookupMove(moves[n]) = <<>> \/ lookupMove(moves[n])[1].isUnknown THEN rest
                ELSE Only({ IF dmg.threw \/ rest.threw THEN [threw |-> TRUE, max |-> NaN]
                            ELSE IF Less(rest.max, dmg.max) THEN [threw |-> FALSE, max |-> dmg.max]
                            ELSE rest :
                            dmg \in { calculateDamage(attacker, defender, lookupMove(moves[n])[1], field) } }) :
                rest \in { bestDamage(attacker, defender, moves, field, n - 1) } })

\* known moves, else commonSets?.[0]?.moves || ['Tackle']
movesToCheck(moves, data) ==
    IF Len(moves) > 0 THEN moves
    ELSE IF data.commonSets # <<>> THEN data.commonSets[1].moves
    ELSE << "Tackle" >>

\* switchInScore without the speed comparison of the forced switch
switchInScoreSpeedBlind(name, oppActive, myData, oppData, oppMon, bestDmg, maxIncomingDmg, isForced) ==
    LET mySpeed == getSpeedRange(name).max
        oppSpeed == getSpeedRange(oppActive).max
        offense == IF ReachesHp(bestDmg, oppMon) THEN 40
                   ELSE IF AtLeast(bestDmg, Whole(50)) THEN 25
                   ELSE IF AtLeast(bestDmg, Whole(30)) THEN 10
                   ELSE -10
        forced == Points(Less(maxIncomingDmg, Whole(30)), 15)
        pivot == (IF Less(maxIncomingDmg, Whole(25)) THEN 40
                  ELSE IF Less(maxIncomingDmg, Whole(50)) THEN 10
                  ELSE -30)
                 + Points(Less(oppSpeed, mySpeed), 10)
        synergy == IF isWeakToSTAB(myData.types, oppData.types) THEN -20
                   ELSE IF resistsSTAB(myData.types, oppData.types) THEN 15
                   ELSE 0
    IN  50 + offense + (IF isForced THEN forced ELSE pivot) + synergy

\* lines 1780-1932: the score of a bench member as a switch-in
switchInScore(name, oppActive, myData, oppData, oppMon, bestDmg, maxIncomingDmg, isForced) ==
    LET mySpeed == getSpeedRange(name).max
        oppSpeed == getSpeedRange(oppActive).max
        offense == IF ReachesHp(bestDmg, oppMon) THEN 40
                   ELSE IF AtLeast(bestDmg, Whole(50)) THEN 25
                   ELSE IF AtLeast(bestDmg, Whole(30)) THEN 10
                   ELSE -10
        forced == (IF Less(oppSpeed, mySpeed) THEN 30
                   ELSE IF Less(mySpeed, oppSpeed)
                   THEN (IF AtLeast(maxIncomingDmg, Whole(80)) THEN -45 ELSE -15)
                   ELSE 0)
                  + Points(Less(maxIncomingDmg, Whole(30)), 15)
        pivot == (IF Less(maxIncomingDmg, Whole(25)) THEN 40
                  ELSE IF Less(maxIncomingDmg, Whole(50)) THEN 10
                  ELSE -30)
                 + Points(Less(oppSpeed, mySpeed), 10)
        synergy == IF isWeakToSTAB(myData.types, oppData.types) THEN -20
                   ELSE IF resistsSTAB(myData.types, oppData.types) THEN 15
                   ELSE 0
    IN  50 + offense + (IF isForced THEN forced ELSE pivot) + synergy

\* lines 1786-1803: the bench member as the attacker, the opponent's active
\* as the defender
benchAttackerOf(mon, myData) ==
    Fighter(<< myData.baseStats >>, << mon.stats >>, myData.types, [b \in {} |-> 0],
            firstAbility(myData), mon.item, 0, "")
switchDefenderOf(oppMon, oppData) == [oppDefenderOf(oppMon, oppData) EXCEPT !.status = ""]

\* lines 1838-1852: the opponent's active as the attacker, the bench member
\* as the defender
switchAttackerOf(oppMon, oppData) == [oppAttackerOf(oppMon, oppData) EXCEPT !.stats = <<>>]
benchDefenderOf(mon, myData) ==
    Fighter(<< myData.baseStats >>, <<>>, myData.types, [b \in {} |-> 0],
            firstAbility(myData), mon.item, IF mon.hp # 0 THEN mon.hp ELSE 100, "")

\* lines 1778-1933: the recommendation for one bench member whose species
\* the knowledge base holds
switchInOf(st, mon, myData, oppMon, oppData, isForced) ==
    Only({ [ name |-> mon.name,
             threw |-> best.threw \/ incoming.threw,
             score |-> switchInScore(mon.name, st.opponentActive, myData, oppData, oppMon,
                                     best.max, incoming.max, isForced),
             maxIncomingDmg |-> incoming.max,
             bestDmg |-> best.max ] :
           best \in { bestDamage(benchAttackerOf(mon, myData), switchDefenderOf(oppMon, oppData),
                                 movesToCheck(mon.moves, myData), st.field,
                                 Len(movesToCheck(mon.moves, myData))) },
           incoming \in { bestDamage(switchAttackerOf(oppMon, oppData), benchDefenderOf(mon, myData),
                                     movesToCheck(IF oppMon # <<>> THEN oppMon[1].moves ELSE <<>>, oppData),
                                     st.field,
                                     Len(movesToCheck(IF oppMon # <<>> THEN oppMon[1].moves ELSE <<>>, oppData))) } })

\* mon.fainted: the entries of the scraper have no such field, the states
\* of test.js do
flaggedFainted(mon) == "fainted" \in DOMAIN mon /\ mon.fainted

\* the members that are not the active one, whatever their HP
switchCandidatesAnyHp(st) ==
    SelectSeq(st.myTeam, LAMBDA mon : mon.name # st.myActive /\ lookupPokemon(mon.name) # <<>>)

\* lines 1771-1777: the members that are not the active one and not
\* fainted, and that the knowledge base holds (lines 1779-1781)
switchCandidates(st) ==
    SelectSeq(st.myTeam, LAMBDA mon : /\ mon.name # st.myActive
                                      /\ mon.hp > 0 /\ ~flaggedFainted(mon)
                                      /\ lookupPokemon(mon.name) # <<>>)

\* recommendSwitch(state, isForced), lines 1762-1938; the reasons are left out
recommendSwitch(st, isForced) ==
    IF st.opponentActive = Null THEN Returned(st, <<>>)
    ELSE IF lookupPokemon(st.opponentActive) = <<>> THEN Returned(st, <<>>)
    ELSE Only({ IF \E i \in 1..Len(recommendations) : recommendations[i].threw THEN Threw(st)
                ELSE Returned(st, sortedDescending(recommendations,
                                      Listed([i \in 1..Len(recommendations) |-> Whole(recommendations[i].score)]),
                                      Len(recommendations)).list) :
                recommendations \in
                    { Listed([ i \in 1..Len(candidates) |->
                                 switchInOf(st, candidates[i], lookupPokemon(candidates[i].name)[1],
                                            monOf(st.opponentTeam, st.opponentActive),
                                            lookupPokemon(st.opponentActive)[1], isForced) ]) :
                      candidates \in { switchCandidates(st) } } })

\* lines 1953-1955: the scraper's forceSwitch flag, else our active has no HP
isForcedSwitchOf(st) ==
    st.forceSwitch \/ (monOf(st.myTeam, st.myActive) # <<>> /\ monOf(st.myTeam, st.myActive)[1].hp <= 0)

\* lines 1961-1974: the report
reportOf(st, switchPrediction, oppMoves, recommendations, switchRecommendations) ==
    [ made |-> TRUE, threw |-> FALSE,
      switchPrediction |-> switchPrediction,
      oppMoves |-> oppMoves,
      recommendations |-> recommendations,
      switchRecommendations |-> switchRecommendations,
      speedAnalysis |-> analyzeSpeed(st),
      oppArchetype |-> detectArchetype(st.opponentTeam),
      myArchetype |-> detectArchetype(st.myTeam),
      isForcedSwitch |-> isForcedSwitchOf(st),
      turnNumber |-> st.turnNumber,
      myActive |-> st.myActive,
      opponentActive |-> st.opponentActive,
      field |-> st.field ]

\* the report of an analysis that raised an error
ErrorReport == [made |-> TRUE, threw |-> TRUE]

\* the last steps of analyze, from recommendSwitch on
analyzeSwitches(switchPrediction, oppMoves, recommendations, switches) ==
    IF switches.threw THEN [state |-> switches.state, report |-> ErrorReport]
    ELSE [ state |-> switches.state,
           report |-> reportOf(switches.state, switchPrediction, oppMoves, recommendations, switches.value) ]

\* the steps of analyze from recommendMove on
analyzeMoves(switchPrediction, oppMoves, recommendations) ==
    IF recommendations.threw THEN [state |-> recommendations.state, report |-> ErrorReport]
    ELSE Only({ analyzeSwitches(switchPrediction, oppMoves, recommendations.value, switches) :
                switches \in { recommendSwitch(recommendations.state,
                                               isForcedSwitchOf(recommendations.state)) } })

\* analyze(state), lines 1946-1975: the state as analyze leaves it, and
\* the report
analyzeAfter(st, predicted) ==
    IF predicted.threw THEN [state |-> predicted.state, report |-> ErrorReport]
    ELSE Only({ analyzeMoves(predictSwitch(st), predicted.value, recommendations) :
                recommendations \in { recommendMove(predicted.state) } })
analyze(st) == Only({ analyzeAfter(st, predicted) : predicted \in { predictOpponentMoves(st) } })

\* ---------------------------------------------------------------------
\* The fusion engine with the analysis run on its state (part_004, lines
\* 57-63: runAnalysis hands the scraper's state to PredictionEngine.analyze)
\* ---------------------------------------------------------------------
AnalysisBarPages ==
    { [left |-> <<Bar(RaichuAlola, 80, "none")>>, right |-> <<Bar(Urshifu, 20, "none")>>],
      [left |-> <<Bar(UrshifuRapid, 40, "psn")>>, right |-> <<>>] }
AnalysisIconPages ==
    { [near |-> <<>>, far |-> << [label |-> UrshifuRapid, fainted |-> FALSE] >>] }
AnalysisButtons ==
    { << MoveButton("Body Press", FALSE), MoveButton("Splash", FALSE), MoveButton("Swords Dance", TRUE) >>,
      << MoveButton("Aqua Jet", TRUE) >> }
AnalysisLines ==
    { Line("go", FALSE, Null, Urshifu, "", 0),
      Line("move", TRUE, Null, Urshifu, "Sucker Punch", 0) }

\* PredictionEngine.analyze(state)
Analyze ==
    /\ \E analysed \in { analyze(state) } :
          /\ state' = analysed.state
          /\ report' = analysed.report
    /\ prev' = state
    /\ lastObs' = [op |-> "analyze", input |-> <<>>]
    /\ UNCHANGED <<processedLogCount, trainers, history, observing, parsedLog, sighted, nObs, snapshot, calc, content>>

NextAnalysis ==
    \/ TrainersAppear(Ash, Gary)
    \/ \E line \in AnalysisLines : AppendLog(line)
    \/ InitialScan
    \/ ProcessNewLogLines
    \/ \E bars \in AnalysisBarPages : ScrapeHP(bars)
    \/ \E page \in AnalysisIconPages : ScrapeTeamIcons(page)
    \/ \E buttons \in AnalysisButtons : ScrapeMoveMenu(buttons)
    \/ Analyze

SpecAnalysis == Init /\ [][NextAnalysis]_vars
\* ---------------------------------------------------------------------
\* data/type_chart.js: the functions of the knowledge base.  They are not
\* the functions of the same names PredictionEngine defines for itself.
\* ---------------------------------------------------------------------
\* TYPE_CHART[atkType][defType]: <<multiplier>>, or <<>> for undefined
chartEntry(atkType, defType) ==
    IF atkType \in DOMAIN TYPE_CHART /\ defType \in DOMAIN TYPE_CHART[atkType]
    THEN << TYPE_CHART[atkType][defType] >> ELSE <<>>

\* an effectiveness that looks at the first defending type only
firstTypeEffectiveness(atkType, defTypes) ==
    IF defTypes = <<>> \/ chartEntry(atkType, defTypes[1]) = <<>> THEN Whole(1)
    ELSE chartEntry(atkType, defTypes[1])[1]

\* getEffectiveness(atkType, defTypes) of data/type_chart.js, lines 52-61
RECURSIVE chartEffectiveness(_, _)
chartEffectiveness(atkType, defTypes) ==
    IF defTypes = <<>> THEN Whole(1)
    ELSE LET mult == chartEffectiveness(atkType, SubSeq(defTypes, 1, Len(defTypes) - 1))
             entry == chartEntry(atkType, defTypes[Len(defTypes)])
         IN  IF entry # <<>> THEN Times(mult, entry[1]) ELSE mult

\* the attacking types and the lists of defending types: the 18 types and a
\* type the chart does not hold
ChartTypes == TypeNames \cup {"Stellar"}
TypeLists == { <<d>> : d \in ChartTypes } \cup { <<d1, d2>> : d1 \in ChartTypes, d2 \in ChartTypes }

InitChart ==
    /\ state = InitState
    /\ processedLogCount = 0
    /\ trainers = [near |-> Null, far |-> Null]
    /\ history = <<>>
    /\ observing = FALSE
    /\ prev = InitState
    /\ lastObs = [op |-> "init", input |-> <<>>]
    /\ parsedLog = <<>>
    /\ sighted = {}
    /\ nObs = 0
    /\ snapshot = NoSnapshot
    /\ report = NoReport
    /\ content = NoContent
    /\ calc \in { [op |-> "types", atkType |-> a, defTypes |-> d, result |-> NaN] :
                  a \in ChartTypes, d \in TypeLists }

\* getEffectiveness(atkType, defTypes)
GetEffectiveness ==
    /\ calc.op = "types"
    /\ UNCHANGED content
    /\ calc' = [calc EXCEPT !.op = "effectiveness", !.result = chartEffectiveness(calc.atkType, calc.defTypes)]
    /\ UNCHANGED <<state, processedLogCount, trainers, history, observing, prev, lastObs, parsedLog,
                   sighted, nObs, snapshot, report>>

NextChart == GetEffectiveness

SpecChart == InitChart /\ [][NextChart]_vars
\* ---------------------------------------------------------------------
\* The prediction engine on battle states given to it: the rosters are
\* built as ensureTeamMember builds their entries, with the HP and the
\* moves the scrapers have recorded since
\* ---------------------------------------------------------------------
Garchomp == <<"G","a","r","c","h","o","m","p">>
Heatran == <<"H","e","a","t","r","a","n">>
Toxapex == <<"T","o","x","a","p","e","x">>
Dragapult == <<"D","r","a","g","a","p","u","l","t">>
Weavile == <<"W","e","a","v","i","l","e">>
Blissey == <<"B","l","i","s","s","e","y">>

\* the state with one more roster entry of a side, its HP and its moves
WithMember(st, sel, name, hp, moves) ==
    Only({ WithTeam(made, sel, [TeamOf(made, sel) EXCEPT ![KeyIndex(TeamOf(made, sel), name)] =
                                    [@ EXCEPT !.hp = hp, !.moves = moves]]) :
           made \in { createMember(st, sel, name) } })

\* the state with the entries of a list of [name, hp, moves] records
RECURSIVE WithMembers(_, _, _)
WithMembers(st, sel, members) ==
    IF members = <<>> THEN st
    ELSE WithMember(WithMembers(st, sel, SubSeq(members, 1, Len(members) - 1)), sel,
                    members[Len(members)].name, members[Len(members)].hp, members[Len(members)].moves)

Member(name, hp, moves) == [name |-> name, hp |-> hp, moves |-> moves]

\* a battle: the two rosters, whose first entries are the active creatures
Battle(mine, theirs) ==
    [ WithMembers(WithMembers(InitState, "my", mine), "opp", theirs) EXCEPT
        !.myActive = IF mine = <<>> THEN Null ELSE mine[1].name,
        !.opponentActive = IF theirs = <<>> THEN Null ELSE theirs[1].name ]

\* our active creatures, the opponent's, and the opponent's benches
MyActives == { <<>> } \cup { << Member(name, 100, <<>>) >> : name \in {Garchomp, Weavile, Toxapex, Urshifu, RaichuAlola, Dragapult} }
OppActives ==
    { Member(name, hp, moves) :
        name \in {Heatran, Dragapult, Blissey, Garchomp, Urshifu},
        hp \in {100, 20},
        moves \in { <<>>, <<"Recover">>, <<"Swords Dance", "Earthquake">> } }
OppBenches == { <<>>, << Member(Toxapex, 100, <<>>) >>, << Member(Toxapex, 100, <<"Recover">>), Member(Blissey, 60, <<"Soft-Boiled">>) >> }
PredictStates ==
    { Battle(mine, <<>>) : mine \in MyActives }
    \cup { Battle(mine, << active >> \o bench) : mine \in MyActives, active \in OppActives, bench \in OppBenches }

InitPredict ==
    /\ state \in PredictStates
    /\ processedLogCount = 0
    /\ trainers = [near |-> Null, far |-> Null]
    /\ history = <<>>
    /\ observing = FALSE
    /\ prev = InitState
    /\ lastObs = [op |-> "init", input |-> <<>>]
    /\ parsedLog = <<>>
    /\ sighted = {}
    /\ nObs = 0
    /\ snapshot = NoSnapshot
    /\ report = NoReport
    /\ content = NoContent
    /\ calc = NoCalc

\* line 1307: the test of the type-disadvantage contribution, FALSE when
\* predictSwitch returns before it
weakTestOf(st) ==
    /\ st.opponentActive # Null /\ st.myActive # Null
    /\ lookupPokemon(st.opponentActive) # <<>> /\ lookupPokemon(st.myActive) # <<>>
    /\ isWeakToSTAB(lookupPokemon(st.myActive)[1].types, lookupPokemon(st.opponentActive)[1].types)

\* PredictionEngine.predictSwitch(state); weak says whether the reason
\* 'Weak to our STAB' is among the reasons returned
PredictSwitch ==
    /\ UNCHANGED content
    /\ calc' = [op |-> "predictSwitch", result |-> predictSwitch(state), weak |-> weakTestOf(state)]
    /\ UNCHANGED <<state, processedLogCount, trainers, history, observing, prev, lastObs, parsedLog,
                   sighted, nObs, snapshot, report>>

\* PredictionEngine.predictOpponentMoves(state)
PredictOpponentMoves ==
    /\ \E predicted \in { predictOpponentMoves(state) } :
          calc' = [op |-> "predictOpponentMoves", threw |-> predicted.threw, result |-> predicted.value,
                   scored |-> IF predicted.threw THEN <<>> ELSE scoredCandidates(state)]
    /\ UNCHANGED <<state, processedLogCount, trainers, history, observing, prev, lastObs, parsedLog,
                   sighted, nObs, snapshot, report, content>>

NextPredict ==
    \/ PredictSwitch
    \/ PredictOpponentMoves

SpecPredict == InitPredict /\ [][NextPredict]_vars

\* ---------------------------------------------------------------------
\* detectArchetype on the opponent's rosters
\* ---------------------------------------------------------------------
MaxRoster == 3
RosterSpecies == {Dragapult, Weavile, Garchomp, Toxapex, Blissey, Mew}
SightedMoves == { <<>>, <<"Recover">>, <<"Swords Dance">>, <<"Dragon Dance", "Roost">>,
                  <<"Recover", "Roost", "Soft-Boiled">> }
Rosters ==
    { roster \in UNION { [1..n -> { Member(name, 100, moves) : name \in RosterSpecies, moves \in SightedMoves }] :
                         n \in 0..MaxRoster } :
        \A i, j \in 1..Len(roster) : i # j => roster[i].name # roster[j].name }

InitArchetype ==
    /\ state \in { Battle(<<>>, roster) : roster \in Rosters }
    /\ processedLogCount = 0
    /\ trainers = [near |-> Null, far |-> Null]
    /\ history = <<>>
    /\ observing = FALSE
    /\ prev = InitState
    /\ lastObs = [op |-> "init", input |-> <<>>]
    /\ parsedLog = <<>>
    /\ sighted = {}
    /\ nObs = 0
    /\ snapshot = NoSnapshot
    /\ report = NoReport
    /\ content = NoContent
    /\ calc = NoCalc

\* PredictionEngine.detectArchetype(state.opponentTeam)
DetectArchetype ==
    /\ calc.op = "none"
    /\ UNCHANGED content
    /\ calc' = [op |-> "detectArchetype", result |-> detectArchetype(state.opponentTeam)]
    /\ UNCHANGED <<state, processedLogCount, trainers, history, observing, prev, lastObs, parsedLog,
                   sighted, nObs, snapshot, report>>

NextArchetype == DetectArchetype

SpecArchetype == InitArchetype /\ [][NextArchetype]_vars

\* ---------------------------------------------------------------------
\* recommendSwitch on benches of known creatures
\* ---------------------------------------------------------------------
MaxBench == 2
BenchSpecies == {Weavile, Dragapult, Heatran, Toxapex, Blissey, Garchomp}
Benches ==
    { bench \in UNION { [1..n -> { Member(name, 100, <<>>) : name \in BenchSpecies }] : n \in 0..MaxBench } :
        \A i, j \in 1..Len(bench) : i # j => bench[i].name # bench[j].name }
Opponents ==
    { Member(name, hp, moves) :
        name \in {Garchomp, Dragapult, Heatran},
        hp \in {100, 20},
        moves \in { <<>>, <<"Earthquake">>, <<"Shadow Ball">> } }

\* the state with the attack stage of the opponent's active creature, as
\* the boost lines of the log leave it
WithAttackStage(st, stage) ==
    [st EXCEPT !.opponentTeam[KeyIndex(st.opponentTeam, st.opponentActive)].boosts.atk = stage]

\* the first member of a bench as it is, without HP, or flagged as fainted
\* the way the states of test.js flag a member
BenchConditions == {"fit", "no hp", "flagged"}
Conditioned(bench, condition) ==
    IF bench = <<>> \/ condition = "fit" THEN bench
    ELSE IF condition = "no hp" THEN [bench EXCEPT ![1].hp = 0]
    ELSE bench
FlagFirst(st, bench, condition) ==
    IF bench = <<>> \/ condition # "flagged" THEN st
    ELSE [st EXCEPT !.myTeam[KeyIndex(st.myTeam, bench[1].name)] = @ @@ [fainted |-> TRUE]]

\* our active creature has fainted; the bench follows it in the roster
SwitchStates ==
    { FlagFirst(WithAttackStage(Battle(<< Member(Urshifu, 0, <<>>) >> \o Conditioned(bench, condition),
                                       << opponent >>), stage), bench, condition) :
        bench \in Benches, opponent \in Opponents, stage \in {0, 2, 6}, condition \in BenchConditions }

InitSwitch ==
    /\ state \in SwitchStates
    /\ processedLogCount = 0
    /\ trainers = [near |-> Null, far |-> Null]
    /\ history = <<>>
    /\ observing = FALSE
    /\ prev = InitState
    /\ lastObs = [op |-> "init", input |-> <<>>]
    /\ parsedLog = <<>>
    /\ sighted = {}
    /\ nObs = 0
    /\ snapshot = NoSnapshot
    /\ report = NoReport
    /\ content = NoContent
    /\ calc = NoCalc

\* PredictionEngine.recommendSwitch(state, isForced)
RecommendSwitch ==
    /\ \E isForced \in BOOLEAN :
         \E recommended \in { recommendSwitch(state, isForced) } :
            calc' = [op |-> "recommendSwitch", isForced |-> isForced,
                     threw |-> recommended.threw, result |-> recommended.value]
    /\ UNCHANGED <<state, processedLogCount, trainers, history, observing, prev, lastObs, parsedLog,
                   sighted, nObs, snapshot, report, content>>

NextSwitch == RecommendSwitch

SpecSwitch == InitSwitch /\ [][NextSwitch]_vars

\* ---------------------------------------------------------------------
\* PredictorUI.updateRecommendations on the reports of analyze
\* ---------------------------------------------------------------------
\* the margin of line 759
SwitchMargin == 15

\* the switch takes the place of the best move at the margin already
switchAtMargin(recs, switchRecs) ==
    AtLeast(Whole(switchRecs[1].score), Plus(recs[1][1].score, Whole(SwitchMargin)))

\* the switch takes the place of the best move, lines 758-767
cautiousSwitch(recs, switchRecs) ==
    Less(Plus(recs[1][1].score, Whole(SwitchMargin)), Whole(switchRecs[1].score))

\* the text of sp-rec-move as a record: the move named, or the member to
\* switch to, or neither
Primary(kind, move, switch) == [kind |-> kind, move |-> move, switch |-> switch]

\* updateRecommendations(recs, switchRecs, isForced), lines 707-788: what
\* is written to sp-rec-move.  recs is <<>> for null and <<list>> otherwise.
updateRecommendations(recs, switchRecs, isForced) ==
    LET hasMove == recs # <<>> /\ Len(recs[1]) > 0
        hasSwitch == Len(switchRecs) > 0
    IN  IF isForced
        THEN (IF hasSwitch THEN Primary("switch", "", switchRecs[1].name) ELSE Primary("any", "", Null))
        ELSE IF hasSwitch /\ hasMove
        THEN (IF cautiousSwitch(recs, switchRecs) THEN Primary("switch", "", switchRecs[1].name)
              ELSE Primary("move", recs[1][1].name, Null))
        ELSE IF hasSwitch THEN Primary("switch", "", switchRecs[1].name)
        ELSE IF hasMove THEN Primary("move", recs[1][1].name, Null)
        ELSE Primary("none", "", Null)

\* the turns the panel is updated on: our active creature with its move
\* menu, our bench, the opponent's active creature
MoveMenus ==
    { <<>>,
      << MoveButton("Splash", FALSE) >>,
      << MoveButton("Earth Power", FALSE) >>,
      << MoveButton("Close Combat", FALSE) >>,
      << MoveButton("Earthquake", FALSE), MoveButton("Swords Dance", FALSE) >>,
      << MoveButton("Close Combat", TRUE) >> }
OurActives == { Member(Urshifu, 100, <<>>), Member(Urshifu, 0, <<>>), Member(Garchomp, 100, <<"Dragon Claw">>) }
ShortBenches == { <<>> } \cup { << Member(name, 100, <<>>) >> : name \in {Weavile, Heatran, Toxapex} }
RecommendOpponents == { opponent \in Opponents : opponent.moves # <<"Shadow Ball">> }
RecommendStates ==
    { [ Battle(<< active >> \o bench, << opponent >>) EXCEPT !.myMoves = menu, !.forceSwitch = forced ] :
        active \in OurActives, bench \in ShortBenches, opponent \in RecommendOpponents,
        menu \in MoveMenus, forced \in BOOLEAN }

InitRecommend ==
    /\ state \in RecommendStates
    /\ processedLogCount = 0
    /\ trainers = [near |-> Null, far |-> Null]
    /\ history = <<>>
    /\ observing = FALSE
    /\ prev = InitState
    /\ lastObs = [op |-> "init", input |-> <<>>]
    /\ parsedLog = <<>>
    /\ sighted = {}
    /\ nObs = 0
    /\ snapshot = NoSnapshot
    /\ report = NoReport
    /\ content = NoContent
    /\ calc = NoCalc

\* runAnalysis (part_004, lines 57-63): PredictionEngine.analyze(state), then
\* PredictorUI.update(analysis) (part_003, lines 582-618) for the
\* recommendations; an error of analyze leaves the panel as it was
RunAnalysis ==
    /\ state.myActive # Null \/ state.opponentActive # Null
    /\ \E analysed \in { analyze(state) } :
          /\ state' = analysed.state
          /\ report' = analysed.report
          /\ UNCHANGED content
          /\ calc' = IF analysed.report.threw THEN calc
                     ELSE [op |-> "updateRecommendations",
                           primary |-> updateRecommendations(analysed.report.recommendations,
                                                             analysed.report.switchRecommendations,
                                                             analysed.report.isForcedSwitch)]
    /\ prev' = state
    /\ lastObs' = [op |-> "analyze", input |-> <<>>]
    /\ UNCHANGED <<processedLogCount, trainers, history, observing, parsedLog, sighted, nObs, snapshot>>

NextRecommend == RunAnalysis

SpecRecommend == InitRecommend /\ [][NextRecommend]_vars
\* ---------------------------------------------------------------------
\* isSamePokemon, findInTeam and ensureTeamMember on two names
\* ---------------------------------------------------------------------
Raichu == <<"R","a","i","c","h","u">>
RaichuGalar == <<"R","a","i","c","h","u","-","G","a","l","a","r">>
RaichuGalarian == <<"R","a","i","c","h","u","-","G","a","l","a","r","i","a","n">>
RaichuHisui == <<"R","a","i","c","h","u","-","H","i","s","u","i">>
RaichuPaldean == <<"R","a","i","c","h","u","-","P","a","l","d","e","a","n">>
RaichuMega == <<"R","a","i","c","h","u","-","M","e","g","a">>

\* the names as the page and the log give them
FormNames ==
    { Raichu, RaichuAlola, RaichuAlolan, RaichuGalar, RaichuGalarian, RaichuHisui, RaichuPaldean,
      RaichuMega, Mew }

InitForms ==
    /\ state = InitState
    /\ processedLogCount = 0
    /\ trainers = [near |-> Null, far |-> Null]
    /\ history = <<>>
    /\ observing = FALSE
    /\ prev = InitState
    /\ lastObs = [op |-> "init", input |-> <<>>]
    /\ parsedLog = <<>>
    /\ sighted = {}
    /\ nObs = 0
    /\ snapshot = NoSnapshot
    /\ report = NoReport
    /\ content = NoContent
    /\ calc \in { [op |-> "names", name1 |-> name1, name2 |-> name2] : name1, name2 \in FormNames }

\* isSamePokemon(name1, name2)
IsSamePokemon ==
    /\ calc.op = "names"
    /\ UNCHANGED content
    /\ calc' = [calc EXCEPT !.op = "isSamePokemon"] @@ [result |-> isSamePokemon(calc.name1, calc.name2)]
    /\ UNCHANGED <<state, processedLogCount, trainers, history, observing, prev, lastObs, parsedLog,
                   sighted, nObs, snapshot, report>>

\* ensureTeamMember(team, cleanPokemonName(raw), source) for one of the two
\* names; found is what findInTeam(team, name) gives before it
EnsureTeamMember(sel, raw, source) ==
    /\ \E name \in { cleanPokemonName(raw, state.myName, state.opponentName) } :
         \E ensured \in { ensureTeamMember(state, sel, name, source) } :
            /\ state' = ensured.st
            /\ lastObs' = [op |-> "ensureTeamMember", input |-> name, sel |-> sel, source |-> source,
                           found |-> findInTeam(TeamOf(state, sel), name), ret |-> ensured.ret]
    /\ prev' = state
    /\ UNCHANGED <<processedLogCount, trainers, history, observing, parsedLog, sighted, nObs, snapshot,
                   report, calc, content>>

NextForms ==
    \/ IsSamePokemon
    \/ \E sel \in Sels, raw \in {calc.name1, calc.name2}, source \in {"visual", "log"} :
          EnsureTeamMember(sel, raw, source)

SpecForms == InitForms /\ [][NextForms]_vars

\* =====================================================================
\* The content script (content.js): battle detection and the lifecycle
\* =====================================================================
\* `content` holds the closure variables of the script (initialized,
\* pollTimer), the timers and observers it has installed, the overlay
\* panel of PredictorUI, and what isBattleActive() reads from the page.
\*   lifecycle   the scraper that is loaded exposes initialScan,
\*               startObserving, stopObserving and reset, which initialize
\*               and teardown call; the scraper of scraper.js exposes none
\*               of them, and the call then throws a TypeError
\*   timeouts    the pending setTimeout(initialize, ...) callbacks, each
\*               named by what scheduled it
\*   creates, starts   history: overlays created and observers started
\*               since the last teardown that ran to its end
MaxPending == 3

Sources == {"bootstrap", "poll", "navigation"}

\* the script has just been loaded (lines 160-176)
Bootstrap(lifecycle, loading, battle) ==
    [ loaded |-> TRUE,
      lifecycle |-> lifecycle,
      battle |-> battle,
      initialized |-> FALSE,
      pollTimer |-> ~loading,
      navObserver |-> ~loading,
      timeouts |-> IF battle THEN <<"bootstrap">> ELSE <<>>,
      panel |-> FALSE,
      observers |-> 0,
      creates |-> 0,
      starts |-> 0 ]

InitContent ==
    /\ state = InitState
    /\ processedLogCount = 0
    /\ trainers = [near |-> Null, far |-> Null]
    /\ history = <<>>
    /\ observing = FALSE
    /\ prev = InitState
    /\ lastObs = [op |-> "init", input |-> <<>>]
    /\ parsedLog = <<>>
    /\ sighted = {}
    /\ nObs = 0
    /\ snapshot = NoSnapshot
    /\ report = NoReport
    /\ calc = NoCalc
    /\ content \in { Bootstrap(lifecycle, loading, battle) : lifecycle, loading, battle \in BOOLEAN }

scraperVars == <<state, processedLogCount, observing, parsedLog>>
pageVars == <<trainers, history, sighted, nObs, snapshot, report, calc>>

\* initialize() without its first line: a second callback builds the
\* overlay's scan and observer again
initializeUnguarded(c) == TRUE

\* the guard of initialize(): the body runs
initializeRuns(c) == ~c.initialized

\* PredictorUI.create()
create(c) ==
    IF c.panel THEN c
    ELSE [c EXCEPT !.panel = TRUE, !.creates = @ + 1]

\* PredictorUI.destroy()
destroy(c) == [c EXCEPT !.panel = FALSE]

\* the content script's part of initialize(): the flag, the overlay and,
\* with a scraper that has the methods, the observer
initialize(c) ==
    IF ~initializeRuns(c) THEN c
    ELSE IF ~c.lifecycle THEN create([c EXCEPT !.initialized = TRUE])
    ELSE [create([c EXCEPT !.initialized = TRUE]) EXCEPT !.observers = @ + 1, !.starts = @ + 1]

\* the delayed callback fires: initialize()
Initialize ==
    /\ content.timeouts # <<>>
    /\ content' = [initialize(content) EXCEPT !.timeouts = Tail(@)]
    /\ lastObs' = [op |-> "initialize", input |-> <<>>, source |-> Head(content.timeouts),
                   body |-> initializeRuns(content), battle |-> content.battle]
    /\ IF initializeRuns(content) /\ content.lifecycle
       THEN /\ observing' = TRUE
            /\ state' = parseFrom(scrapeSwitchMenu(scrapeMoveMenu(updatePlayerNames(state, trainers), <<>>), NoMenu),
                                  trainers, history, firstNewLine(processedLogCount), Len(history))
            /\ prev' = state
            /\ LogRead
       ELSE UNCHANGED <<scraperVars, prev>>
    /\ UNCHANGED pageVars

\* teardown() ran to its end
tornDown(c) ==
    [destroy(c) EXCEPT !.initialized = FALSE, !.observers = 0, !.creates = 0, !.starts = 0, !.pollTimer = TRUE]

\* teardown(): the changes of the content script and of the scraper
Teardown(op) ==
    /\ lastObs' = [op |-> op, input |-> <<>>, torn |-> content.initialized /\ content.lifecycle]
    /\ IF content.initialized /\ content.lifecycle
       THEN /\ content' = tornDown(content)
            /\ observing' = FALSE
            /\ state' = InitState
            /\ processedLogCount' = 0
            /\ prev' = state
            /\ UNCHANGED parsedLog
       ELSE UNCHANGED <<content, scraperVars, prev>>
    /\ UNCHANGED pageVars

\* the callback of the poll interval and of the navigation observer
detect(c, source) ==
    IF c.battle /\ ~c.initialized THEN "schedule"
    ELSE IF ~c.battle /\ c.initialized THEN "teardown"
    ELSE "nothing"

Detected(source) ==
    /\ detect(content, source) # "schedule" \/ Len(content.timeouts) < MaxPending
    /\ IF detect(content, source) = "schedule"
       THEN /\ content' = [content EXCEPT !.timeouts = Append(@, source)]
            /\ lastObs' = [op |-> source, input |-> <<>>]
            /\ UNCHANGED <<scraperVars, prev, pageVars>>
       ELSE IF detect(content, source) = "teardown"
       THEN Teardown(source)
       ELSE /\ lastObs' = [op |-> source, input |-> <<>>]
            /\ UNCHANGED <<content, scraperVars, prev, pageVars>>

\* the interval of startPolling() ticks
PollTick ==
    /\ content.pollTimer
    /\ Detected("poll")

\* the MutationObserver of watchNavigation() reports a change of the page
NavigationObserved ==
    /\ content.navObserver
    /\ Detected("navigation")

\* DOMContentLoaded: startPolling() and watchNavigation()
ContentLoaded ==
    /\ ~content.pollTimer
    /\ content' = [content EXCEPT !.pollTimer = TRUE, !.navObserver = TRUE]
    /\ lastObs' = [op |-> "DOMContentLoaded", input |-> <<>>]
    /\ UNCHANGED <<scraperVars, prev, pageVars>>

\* the page opens a battle room
BattleAppears ==
    /\ ~content.battle
    /\ content' = [content EXCEPT !.battle = TRUE]
    /\ lastObs' = [op |-> "battle appears", input |-> <<>>]
    /\ UNCHANGED <<scraperVars, prev, pageVars>>

\* the page closes the battle room
BattleEnds ==
    /\ content.battle
    /\ content' = [content EXCEPT !.battle = FALSE]
    /\ lastObs' = [op |-> "battle ends", input |-> <<>>]
    /\ UNCHANGED <<scraperVars, prev, pageVars>>

\* the background script sends {action: 'reset'}
ResetMessage == Teardown("reset")

NextContent ==
    \/ Initialize
    \/ PollTick
    \/ NavigationObserved
    \/ ContentLoaded
    \/ BattleAppears
    \/ BattleEnds
    \/ ResetMessage

SpecContent == InitContent /\ [][NextContent]_vars
\* ---------------------------------------------------------------------
\* Properties of the fusion engine
\* ---------------------------------------------------------------------
Teams(s) == <<s.myTeam, s.opponentTeam>>
Sizes(s) == <<Len(s.myTeam), Len(s.opponentTeam)>>
Actives(s) == <<s.myActive, s.opponentActive>>

\* the last handler was processNewLogLines on one new line; the line; the
\* state parseBattleLogLine reads it in (after updatePlayerNames)
OneLogLine == lastObs.op = "log" /\ Len(lastObs.input.lines) = 1
TheLine == lastObs.input.lines[1]
Before == updatePlayerNames(prev, lastObs.input.trainers)

\* the canonical name parseBattleLogLine computes for the creature of a line
lineName(st, line) ==
    IF line.tpl = "sentOut"
    THEN cleanPokemonName(sentOutSpecies(trim(line.who), parenMatch(trim(line.who))), st.myName, st.opponentName)
    ELSE IF line.tpl \in {"move", "damage"}
    THEN cleanPokemonName(afterPossessive(subjectText(line)), st.myName, st.opponentName)
    ELSE cleanPokemonName(subjectText(line), st.myName, st.opponentName)

\* the team parseBattleLogLine selects for the creature of a line
lineTeam(st, line) ==
    CASE line.tpl = "go" -> "my"
      [] line.tpl = "cameOut" -> "opp"
      [] line.tpl = "sentOut" -> IF isOpp(st, trim(line.owner)) THEN "opp" ELSE "my"
      [] line.tpl = "move" ->
            resolveTeamForPokemon(st, lineName(st, line), moveSideOf(st, determineSide(st, line), subjectText(line)))
      [] OTHER -> resolveTeamForPokemon(st, lineName(st, line), determineSide(st, line))

\* the last handler was a scraper that saw exactly one stat bar or one team
\* icon; the side it was on, its canonical name
OneSighting ==
    \/ lastObs.op = "statbar" /\ Len(lastObs.input.left) + Len(lastObs.input.right) = 1
    \/ lastObs.op = "icons" /\ Len(lastObs.input.near) + Len(lastObs.input.far) = 1
SightedSel ==
    IF lastObs.op = "statbar" THEN (IF lastObs.input.left # <<>> THEN "my" ELSE "opp")
    ELSE (IF lastObs.input.near # <<>> THEN "my" ELSE "opp")
SightedName == IF CanonicalNames(lastObs, prev) = {} THEN Null ELSE Only(CanonicalNames(lastObs, prev))

\* C1: in every reachable state no name is a key of both myTeam and
\* opponentTeam.
TeamExclusivity == Keys(state.myTeam) \cap Keys(state.opponentTeam) = {}

\* a sighting has moved an entry of the opponent's team into the player's team
RelocatedBySighting ==
    /\ lastObs.op \in {"statbar", "icons", "tooltip", "switches"}
    /\ \E k \in Keys(prev.opponentTeam) : ~HasKey(state.opponentTeam, k) /\ HasKey(state.myTeam, k)

\* the sighting of one creature that is not in the team of its side while
\* that team is full
RefusedSighting ==
    /\ OneSighting
    /\ SightedName # Null
    /\ findInTeam(TeamOf(prev, SightedSel), SightedName) = Null
    /\ Len(TeamOf(prev, SightedSel)) >= MAX_TEAM_SIZE

\* C2: in every reachable state each team holds at most 6 entries, and a
\* sighting that would bring a team above 6 entries is refused as a no-op.
SizeInvariant ==
    /\ Len(state.myTeam) <= MAX_TEAM_SIZE
    /\ Len(state.opponentTeam) <= MAX_TEAM_SIZE
    /\ (RefusedSighting => state = prev)

\* C3: log lines that name only creatures no scraper has sighted create no
\* roster entry in either team.
LogNeverCreates ==
    (/\ lastObs.op = "log"
     /\ \A i \in 1..Len(lastObs.input.lines) : lineName(Before, lastObs.input.lines[i]) \notin sighted)
        => Len(state.myTeam) + Len(state.opponentTeam) = Len(prev.myTeam) + Len(prev.opponentTeam)

\* the line names a creature that is a member of the team the line does not select
NamesMemberOfOtherTeam ==
    /\ OneLogLine
    /\ lineTeam(Before, TheLine) # "none"
    /\ findInTeam(TeamOf(Before, lineTeam(Before, TheLine)), lineName(Before, TheLine)) = Null
    /\ findInTeam(TeamOf(Before, OtherSel(lineTeam(Before, TheLine))), lineName(Before, TheLine)) # Null

\* C4: a log line that names a creature that is a member of the other team
\* leaves both teams unchanged.
LogNeverRelocates == NamesMemberOfOtherTeam => Teams(state) = Teams(prev)

\* the last handler saw a single observation: one stat bar, one icon, the
\* tooltip, a menu snapshot, or one log line
SingleObservation == OneSighting \/ lastObs.op \in {"tooltip", "moves", "switches"} \/ OneLogLine

\* the handler of an observation, applied to st
Replay(obs, st) ==
    CASE obs.op = "statbar" -> scrapeHP(st, obs.input)
      [] obs.op = "icons" -> scrapeTeamIcons(st, obs.input)
      [] obs.op = "tooltip" -> scrapeTooltip(st, obs.input)
      [] obs.op = "moves" -> scrapeMoveMenu(st, obs.input)
      [] obs.op = "switches" -> scrapeSwitchMenu(st, obs.input)
      [] obs.op = "log" -> parseBattleLogLine(st, obs.input.trainers, obs.input.lines[1])

\* C5: applying a single observation once more to the state it has
\* produced yields that state again.
ReplayChangesNothing == SingleObservation => Replay(lastObs, state) = state

\* C6: the log entries parsed so far are the entries 1, 2, ... of the log,
\* each once and in log order; after an invocation every entry of the log
\* has been parsed; an invocation with no new entry changes nothing.
LogParsedOnceInOrder ==
    /\ parsedLog = [i \in 1..Len(parsedLog) |-> i]
    /\ Len(parsedLog) = processedLogCount
    /\ processedLogCount <= Len(history)
    /\ (lastObs.op \in {"log", "scan"} => processedLogCount = lastObs.input.total)
    /\ (lastObs.op = "log" /\ lastObs.input.lines = <<>> => state = prev)

\* a second invocation has parsed the second entry of the log alone
SecondBatchParsed ==
    /\ OneLogLine
    /\ parsedLog = <<1, 2>>
    /\ processedLogCount = 2

\* the subject of a line is not resolvable in the team selected for it
Unresolvable(st, line) ==
    \/ lineTeam(st, line) = "none"
    \/ findInTeam(TeamOf(st, lineTeam(st, line)), lineName(st, line)) = Null

\* C7: a damage, faint, status, terastallize, item, ability or boost line
\* whose subject is not resolvable in the team selected for it leaves both
\* teams unchanged.
AttributeLinesNeverCreate ==
    (OneLogLine /\ TheLine.tpl \in AttributeTemplates /\ Unresolvable(Before, TheLine))
        => Teams(state) = Teams(prev)

\* an attribute line about the opposing creature was parsed while a same
\* creature is an entry of the player's team only
UnresolvedWhileInOtherTeam ==
    /\ OneLogLine
    /\ TheLine.tpl \in AttributeTemplates
    /\ Unresolvable(Before, TheLine)
    /\ lineTeam(Before, TheLine) = "opp"
    /\ findInTeam(prev.myTeam, lineName(Before, TheLine)) # Null

\* every raw name of the sighting canonicalizes to ''
NamelessSighting ==
    /\ lastObs.op \in {"statbar", "icons", "tooltip", "switches"}
    /\ RawNames(lastObs) # {}
    /\ CanonicalNames(lastObs, prev) = {}

\* the raw name of the switch-in line canonicalizes to ''
NamelessSwitchIn ==
    /\ OneLogLine
    /\ TheLine.tpl \in {"go", "sentOut", "cameOut"}
    /\ lineName(Before, TheLine) = Null

\* C8: a sighting or switch-in line whose raw name canonicalizes to ''
\* creates and relocates no entry and changes neither active pointer.
NamelessObservationDropped ==
    (NamelessSighting \/ NamelessSwitchIn)
        => Teams(state) = Teams(prev) /\ Actives(state) = Actives(prev)

\* a stat bar with such a name was scraped while an active creature is known
NamelessStatbarWithActive ==
    /\ NamelessSighting
    /\ lastObs.op = "statbar"
    /\ prev.myActive # Null
    /\ prev.myTeam # <<>>

\* C9: a "P sent out X!" line parsed while neither player name is known
\* creates no entry and relocates none.
AmbiguousSentOutNeverCreates ==
    (OneLogLine /\ TheLine.tpl = "sentOut" /\ Before.myName = Null /\ Before.opponentName = Null)
        => Sizes(state) = Sizes(prev)

\* the key the sighted creature is stored under before the sighting
SightedKey == findInTeam(TeamOf(prev, SightedSel), SightedName)

\* one team icon, not fainted, of a creature its team holds under a less
\* specific key: processIcon is ensureTeamMember, which upgrades the key
UpgradeCase ==
    /\ lastObs.op = "icons"
    /\ OneSighting
    /\ \A i \in Range(lastObs.input.near) \cup Range(lastObs.input.far) : ~i.fainted
    /\ SightedKey # Null
    /\ SightedName # SightedKey
    /\ Len(SightedName) > Len(SightedKey)
    /\ isSamePokemon(SightedKey, SightedName)
OldEntry == Get(TeamOf(prev, SightedSel), SightedKey)
NewEntry == Get(TeamOf(state, SightedSel), SightedName)

\* C10 as stated: a key upgrade leaves every field of the entry other than
\* its name, and the size of the team, as they were.
UpgradeKeepsEveryField ==
    UpgradeCase =>
        /\ Sizes(state) = Sizes(prev)
        /\ \A f \in (DOMAIN OldEntry) \ {"name"} : NewEntry[f] = OldEntry[f]

\* C10: a key upgrade leaves the size of the team and the hp, status, known
\* moves, item, tera type and flag, boosts and a non-empty ability of the
\* entry as they were; types and stats become those of the knowledge-base
\* record of the new form when lookupPokemon finds one, and stay otherwise.
UpgradeKeepsObservedFields ==
    UpgradeCase =>
        /\ Sizes(state) = Sizes(prev)
        /\ \A f \in {"hp", "status", "moves", "item", "teraType", "isTerastallized", "boosts", "revealed"} :
              NewEntry[f] = OldEntry[f]
        /\ (OldEntry.ability # "" => NewEntry.ability = OldEntry.ability)
        /\ IF lookupPokemon(SightedName) # <<>>
           THEN /\ NewEntry.types = lookupPokemon(SightedName)[1].types
                /\ NewEntry.stats = lookupPokemon(SightedName)[1].baseStats
           ELSE /\ NewEntry.types = OldEntry.types
                /\ NewEntry.stats = OldEntry.stats

\* the key of an entry with a scraped hp and status was upgraded
UpgradedAfterStatbar ==
    /\ UpgradeCase
    /\ OldEntry.hp = 50
    /\ OldEntry.status = "tox"
    /\ NewEntry.hp = 50
\* ---------------------------------------------------------------------
\* Properties of the field state
\* ---------------------------------------------------------------------
\* the four hazard counters of a field, their maxima, and the template of
\* the line that removes each
HazardCounters(f) ==
    <<f.myHazards.spikes, f.opponentHazards.spikes, f.myHazards.toxicSpikes, f.opponentHazards.toxicSpikes>>
HazardMaxima == <<3, 3, 2, 2>>
HazardRemoval == <<"spikesGone", "spikesGone", "toxicSpikesGone", "toxicSpikesGone">>

\* from before to after, a counter only falls to 0, and only by its removal line
HazardStep(before, after, line) ==
    \A i \in 1..4 : after[i] >= before[i] \/ (after[i] = 0 /\ line.tpl = HazardRemoval[i])

\* C11: in every reachable state the hazard counters lie within 0..3
\* (spikes) and 0..2 (toxic spikes); whatever line is parsed next, a counter
\* does not decrease unless the line is its removal line, which sets it to
\* 0; and no handler but the log parser changes a counter.
HazardCountersBounded ==
    /\ \A i \in 1..4 : HazardCounters(state.field)[i] \in 0..HazardMaxima[i]
    /\ \A line \in FieldLines :
          HazardStep(HazardCounters(state.field),
                     HazardCounters(parseBattleLogLine(state, trainers, line).field), line)
    /\ (HazardCounters(state.field) # HazardCounters(prev.field) => lastObs.op \in {"log", "scan"})

\* a fourth layer of spikes was scattered on a side that holds three
SpikesSaturated ==
    /\ OneLogLine
    /\ TheLine.tpl = "spikes"
    /\ TheLine.opposing
    /\ prev.field.opponentHazards.spikes = 3
    /\ state.field.opponentHazards.spikes = 3

\* C12: the turn number never decreases from one handler run to the next.
TurnNeverDecreases == state.turnNumber >= prev.turnNumber

\* ---------------------------------------------------------------------
\* Properties of the roster entries
\* ---------------------------------------------------------------------
\* the last handler was a stat bar or tooltip sighting that carried no
\* reading of the hit points
NoHpReading ==
    \/ /\ lastObs.op = "statbar"
       /\ \A b \in Range(lastObs.input.left) \cup Range(lastObs.input.right) : b.hp < 0
    \/ lastObs.op = "tooltip" /\ lastObs.input.hp < 0

\* no entry that is in its team before and after has more hit points after
HpNotRaised(before, after) ==
    \A sel \in Sels : \A k \in Keys(TeamOf(before, sel)) \cap Keys(TeamOf(after, sel)) :
        Get(TeamOf(after, sel), k).hp <= Get(TeamOf(before, sel), k).hp

\* C13: the hp of every entry lies within 0..100, and a stat bar or tooltip
\* sighting without a reading of the hit points raises the hp of no entry.
HpWithinRangeNeverRaisedUnread ==
    /\ \A sel \in Sels : \A k \in Keys(TeamOf(state, sel)) : Get(TeamOf(state, sel), k).hp \in 0..100
    /\ (NoHpReading => HpNotRaised(prev, state))

\* the entries of st that continue the entry (sel, k): the entry itself
\* while its key stays in its team, else the entries of either team whose
\* key names the same creature
Successors(st, sel, k) ==
    IF HasKey(TeamOf(st, sel), k) THEN { <<sel, k>> }
    ELSE { p \in UNION { { <<s2, k2>> : k2 \in Keys(TeamOf(st, s2)) } : s2 \in Sels } : isSamePokemon(p[2], k) }

IsPrefix(a, b) == Len(a) <= Len(b) /\ SubSeq(b, 1, Len(a)) = a

\* every entry of before continues in after, with its moves kept in place
MovesKept(before, after) ==
    \A sel \in Sels : \A k \in Keys(TeamOf(before, sel)) :
        /\ Successors(after, sel, k) # {}
        /\ \A p \in Successors(after, sel, k) :
              IsPrefix(Get(TeamOf(before, sel), k).moves, Get(TeamOf(after, p[1]), p[2]).moves)

\* C14: a handler removes no move from an entry, also when it upgrades the
\* key of the entry or moves the entry to the other team, and no entry's
\* move list holds the same move name twice.
MovesAppendOnly ==
    /\ MovesKept(prev, state)
    /\ \A sel \in Sels : \A k \in Keys(TeamOf(state, sel)) :
          Cardinality(Range(Get(TeamOf(state, sel), k).moves)) = Len(Get(TeamOf(state, sel), k).moves)

\* an entry with a known move was moved to the other team, where a second
\* channel reports the same move again
MovesSurviveRelocation ==
    /\ lastObs.op = "tooltip"
    /\ HasKey(state.opponentTeam, Urshifu)
    /\ ~HasKey(state.myTeam, Urshifu)
    /\ Get(state.opponentTeam, Urshifu).moves = <<"Close Combat", "U-turn">>
    /\ Get(prev.opponentTeam, Urshifu).moves = <<"Close Combat">>


\* C15: getState returns a copy of the state; a write of the caller into
\* the object it was given leaves the engine's state as it was, and the
\* engine's handlers leave that object as the caller last saw it.
SnapshotIsolated ==
    /\ (lastObs.op = "getState" => snapshot.view = state /\ state = prev)
    /\ (lastObs.op = "client" => state = prev)
    /\ (snapshot.ref # "none" => Deref(snapshot, state) = snapshot.view)

\* the caller has emptied the teams of its snapshot, and a scraper has
\* since changed the engine's teams
SnapshotAndStateDiverged ==
    /\ snapshot.ref = "copy"
    /\ snapshot.view.myTeam = <<>>
    /\ lastObs.op \in {"icons", "statbar"}
    /\ state # prev
    /\ state.myTeam # <<>>
    /\ snapshot.view # jsonCopy(state)

\* the result is 0/0
ZeroDamage(result) == ~result.threw /\ result.min = Whole(0) /\ result.max = Whole(0)

\* C18: calculateDamage returns min = 0 and max = 0 for every move whose
\* category is Status, whatever the attacker, the defender and the field,
\* and for the record lookupMove gives a name that is not in the database.
StatusYieldsZero ==
    /\ (calc.op \in {"calculate", "raise"} /\ (calc.move.cat = "Status" \/ calc.move.isUnknown)
            => ZeroDamage(calc.result))
    /\ lookupMove("Splash")[1].isUnknown
    /\ \A a \in Attackers, d \in Defenders, f \in DamageFields :
            ZeroDamage(calculateDamage(a, d, lookupMove("Splash")[1], f))

\* the damage of a Status move of power 80 was calculated for an attacker
\* with Huge Power
StatusMoveWithPowerCalculated ==
    /\ calc.op = "calculate"
    /\ calc.move.cat = "Status"
    /\ calc.move.bp = 80
    /\ calc.attacker.ability = "Huge Power"
    /\ ZeroDamage(calc.result)

\* 100 * level / the defender's maximum HP
LevelDamage(defender) == Times(Over(Whole(Level), maxHPOf(defender)), Whole(100))

\* C19: for Seismic Toss as the move database records it, calculateDamage
\* returns min = max = 100 * level / the defender's maximum HP.
SeismicTossFixed ==
    (calc.op = "calculate" /\ calc.move = lookupMove("Seismic Toss")[1])
        => /\ ~calc.result.threw
           /\ calc.result.min = LevelDamage(calc.defender)
           /\ calc.result.max = LevelDamage(calc.defender)

\* the power of the move was raised and both results are numbers
PowerRaised ==
    /\ calc.op = "raise"
    /\ ~calc.before.threw /\ ~calc.result.threw
    /\ ~IsNaN(calc.before.max) /\ ~IsNaN(calc.result.max)

\* the power went from Technician's range (at most 60) to above it
LeftTechnicianRange ==
    /\ calc.attacker.ability = "Technician"
    /\ calc.from <= 60
    /\ calc.move.bp > 60

\* C20 as stated: with the attacker, the defender and the field fixed, a
\* higher power of the move never gives a lower max%.
DamageMonotoneInPower == PowerRaised => AtLeast(calc.result.max, calc.before.max)

\* C20: with the attacker, the defender and the field fixed, a higher
\* power of the move gives a lower max% only when the attacker's ability is
\* Technician and the power leaves Technician's range (from at most 60 to
\* above 60).
DamageMonotoneOutsideTechnician ==
    (PowerRaised /\ ~LeftTechnicianRange) => AtLeast(calc.result.max, calc.before.max)

\* a raise of the power has raised the max% of an attacker with Technician
\* within Technician's range
RaisedWithinTechnicianRange ==
    /\ PowerRaised
    /\ calc.attacker.ability = "Technician"
    /\ calc.move.bp <= 60
    /\ Less(calc.before.max, calc.result.max)

\* C16: PredictionEngine.analyze leaves the state it is given as it was:
\* both teams with the move lists of their entries, the active pointers, the
\* field, the legal moves and the switches.
AnalysisReadsOnly == lastObs.op = "analyze" => state = prev

\* the analysis has predicted four moves for an opponent's active creature
\* of which fewer than four moves are known
MovesAssumedFromCommonSets ==
    /\ lastObs.op = "analyze"
    /\ report.made /\ ~report.threw
    /\ Len(report.oppMoves) = 4
    /\ monOf(state.opponentTeam, state.opponentActive) # <<>>
    /\ Len(monOf(state.opponentTeam, state.opponentActive)[1].moves) < 4

\* C17: analyze raises no error on a state the fusion engine can reach;
\* when an active creature is missing, the switch prediction is LOW with
\* score 0 and the list of the opponent's moves is empty.
AnalysisNeverRaises ==
    /\ (report.made => ~report.threw)
    /\ (lastObs.op = "analyze" /\ (state.myActive = Null \/ state.opponentActive = Null)
            => /\ report.switchPrediction = [probability |-> "LOW", score |-> 0]
               /\ report.oppMoves = <<>>)

\* the analysis has recommended moves, a move unknown to the move database
\* among them, for an active creature of a species unknown to the knowledge
\* base
UnknownSpeciesAnalysed ==
    /\ lastObs.op = "analyze"
    /\ report.made /\ ~report.threw
    /\ state.myActive # Null /\ state.opponentActive # Null
    /\ lookupPokemon(state.myActive) = <<>>
    /\ report.recommendations # <<>>
    /\ \E i \in 1..Len(report.recommendations[1]) : lookupMove(report.recommendations[1][i].name)[1].isUnknown

\* getEffectiveness of the knowledge base was applied to types of the chart
ChartTypesGiven ==
    /\ calc.op = "effectiveness"
    /\ calc.atkType \in TypeNames
    /\ \A i \in 1..Len(calc.defTypes) : calc.defTypes[i] \in TypeNames

\* the product of the chart entries of an attacking type against each
\* defending type of a list of one or two
ProductOfEntries(atkType, defTypes) ==
    IF Len(defTypes) = 1 THEN TYPE_CHART[atkType][defTypes[1]]
    ELSE Times(TYPE_CHART[atkType][defTypes[1]], TYPE_CHART[atkType][defTypes[2]])

\* C21: for an attacking type and one or two defending types of the chart,
\* getEffectiveness of the knowledge base returns the product of the
\* single-type entries: one of 0, 0.25, 0.5, 1, 2, 4, and 0 when a
\* component is immune.
EffectivenessIsProduct ==
    ChartTypesGiven =>
        /\ calc.result = ProductOfEntries(calc.atkType, calc.defTypes)
        /\ calc.result \in {Whole(0), Frac(1, 4), Frac(1, 2), Whole(1), Whole(2), Whole(4)}
        /\ ((\E i \in 1..Len(calc.defTypes) : TYPE_CHART[calc.atkType][calc.defTypes[i]] = Whole(0))
                => calc.result = Whole(0))

\* Ground against Fire/Steel has come out as 4
GroundOnFireSteel ==
    /\ ChartTypesGiven
    /\ calc.atkType = "Ground"
    /\ calc.defTypes = <<"Fire", "Steel">>
    /\ calc.result = Whole(4)

\* calculateDamage was applied to a damaging move and a defender that is
\* not terastallized, of types the chart holds
DamagingMoveCalculated ==
    /\ calc.op = "calculate"
    /\ ~isNoDamage(calc.move)
    /\ calc.move.name # "Seismic Toss"
    /\ ~calc.defender.isTerastallized
    /\ calc.move.type \in TypeNames
    /\ \A i \in 1..Len(calc.defender.types) : calc.defender.types[i] \in TypeNames

\* a same-type move that the chart makes 4x effective, from an attacker of
\* base Attack 145 at neutral boosts
ScenarioA ==
    /\ DamagingMoveCalculated
    /\ calc.attacker.baseStats = <<LandorusStats>>
    /\ calc.move.name = "Earthquake"
    /\ calc.defender.types = <<"Fire", "Steel">>

\* C22: the effectiveness calculateDamage reports for a damaging move
\* against a defender that is not terastallized is the product of the chart
\* multipliers of the move's type against the defender's types, and the
\* same-type 4x hit of the attacker of base Attack 145 has max% > 80.
ReportedEffectivenessIsChartProduct ==
    /\ (DamagingMoveCalculated /\ ~calc.result.threw
            => calc.result.effectiveness = chartEffectiveness(calc.move.type, calc.defender.types))
    /\ (ScenarioA => calc.result.effectiveness = Whole(4) /\ Less(Whole(80), calc.result.max))

\* calculateDamage has taken a damaging move through the damage formula
FormulaApplied ==
    /\ calc.op = "calculate"
    /\ ~isNoDamage(calc.move)
    /\ calc.move.name # "Seismic Toss"
    /\ ~calc.result.threw

\* the stages calculateDamage reads for the move, and the two stats before
\* a stage is applied to them
AttackStage == BoostOf(calc.attacker.boosts, IF calc.move.cat = "Physical" THEN "atk" ELSE "spa")
DefenseStage == BoostOf(calc.defender.boosts, IF calc.move.cat = "Physical" THEN "def" ELSE "spd")
UnboostedAttack == attackStat([calc.attacker EXCEPT !.boosts = NoBoostsGiven], calc.defender, calc.move)
UnboostedDefense == defenseStat([calc.defender EXCEPT !.boosts = NoBoostsGiven], calc.move)

\* a stat scaled by (2+s)/2 for a stage s > 0 and by 2/(2-s) for s < 0,
\* rounded down
Scaled(stat, s) ==
    IF s > 0 THEN Floor(Times(stat, Frac(2 + s, 2)))
    ELSE IF s < 0 THEN Floor(Times(stat, Frac(2, 2 - s)))
    ELSE stat
ClampedStage(s) == IF s > 6 THEN 6 ELSE IF s < -6 THEN -6 ELSE s

\* the damage of the move of the last calculation when the two stats are
\* scaled by the stages sAtk and sDef
DamageAtStages(sAtk, sDef) ==
    damageOfStats(calc.attacker, calc.defender, calc.move, calc.field,
                  effectivePower(calc.attacker, calc.defender, calc.move),
                  Scaled(UnboostedAttack, sAtk), Scaled(UnboostedDefense, sDef))

\* C23 as stated: calculateDamage scales the offensive and the defensive
\* stat by (2+s)/2 or 2/(2-s) for the stage s clamped to -6..6.
StagesAppliedClamped ==
    FormulaApplied => calc.result = DamageAtStages(ClampedStage(AttackStage), ClampedStage(DefenseStage))

\* C23: calculateDamage scales the offensive and the defensive stat by
\* (2+s)/2 for a stage s > 0 and by 2/(2-s) for s < 0, rounded down, for
\* the stage as it is given, within -6..6 or not; Body Press takes its
\* offensive stat without a stage.
StagesAppliedAsGiven ==
    FormulaApplied =>
        calc.result = DamageAtStages(IF calc.move.name = "Body Press" THEN 0 ELSE AttackStage, DefenseStage)

\* a stage of +8 was applied as +8, with a result that a stage of +6 does
\* not give
StageBeyondSixApplied ==
    /\ FormulaApplied
    /\ AttackStage = 8
    /\ calc.result = DamageAtStages(8, DefenseStage)
    /\ calc.result # DamageAtStages(6, DefenseStage)

\* calculateDamage has computed the same-type bonus of a move
BonusComputed == calc.op = "calculate" /\ ~isNoDamage(calc.move)
MoveIsOriginalType == \E i \in 1..Len(calc.attacker.types) : calc.attacker.types[i] = calc.move.type
MoveIsTeraType == calc.attacker.teraType = calc.move.type
TeraAttacker == calc.attacker.isTerastallized /\ calc.attacker.teraType # ""

\* the bonus by the rule of the terastallized and of the other attackers
BonusByRule ==
    IF TeraAttacker
    THEN (IF MoveIsTeraType /\ MoveIsOriginalType THEN Whole(2)
          ELSE IF MoveIsTeraType \/ MoveIsOriginalType THEN Frac(3, 2)
          ELSE Whole(1))
    ELSE (IF MoveIsOriginalType THEN Frac(3, 2) ELSE Whole(1))

\* C24 as stated: the bonus of a terastallized attacker is 2.0 for a move
\* of its tera type that is an original type, 1.5 for a move of its tera
\* type that is no original type, 1.0 for a move of neither; the bonus of
\* another attacker is 1.5 iff the move is of one of its types.
TeraBonusWhateverAbility ==
    BonusComputed =>
        IF TeraAttacker
        THEN /\ (MoveIsTeraType /\ MoveIsOriginalType => calc.stab = Whole(2))
             /\ (MoveIsTeraType /\ ~MoveIsOriginalType => calc.stab = Frac(3, 2))
             /\ (~MoveIsTeraType /\ ~MoveIsOriginalType => calc.stab = Whole(1))
        ELSE (calc.stab = Frac(3, 2)) <=> MoveIsOriginalType

\* C24: that rule, with 1.5 for a move of an original type that is not the
\* tera type, gives the bonus of an attacker whose ability is not
\* Adaptability; with Adaptability every bonus above 1 is 2.0.
TeraBonus ==
    BonusComputed =>
        calc.stab = IF calc.attacker.ability = "Adaptability" /\ BonusByRule # Whole(1)
                    THEN Whole(2) ELSE BonusByRule

\* a terastallized attacker has used a move of its tera type, an original
\* type, with a bonus of 2.0
TeraIntoOriginalType ==
    /\ BonusComputed
    /\ TeraAttacker
    /\ calc.attacker.ability # "Adaptability"
    /\ MoveIsTeraType /\ MoveIsOriginalType
    /\ calc.stab = Whole(2)

\* ---------------------------------------------------------------------
\* C25
\* ---------------------------------------------------------------------
\* predictSwitch has scored a state whose two active creatures are known
SwitchScored ==
    /\ calc.op = "predictSwitch"
    /\ state.opponentActive # Null /\ state.myActive # Null
    /\ lookupPokemon(state.opponentActive) # <<>> /\ lookupPokemon(state.myActive) # <<>>

\* by the type chart, the greatest multiplier of a type of ours on theirs
WeakBy(ourTypes, theirTypes, multiplier) ==
    \E i \in 1..Len(ourTypes) : AtLeast(chartEffectiveness(ourTypes[i], theirTypes), Whole(multiplier))
ResistingBench ==
    \E i \in 1..Len(state.opponentTeam) :
        /\ state.opponentTeam[i].name # state.opponentActive
        /\ lookupPokemon(state.opponentTeam[i].name) # <<>>
        /\ \A t \in 1..Len(lookupPokemon(state.myActive)[1].types) :
               AtLeast(Frac(1, 2), chartEffectiveness(lookupPokemon(state.myActive)[1].types[t],
                                                      lookupPokemon(state.opponentTeam[i].name)[1].types))

\* C25: predictSwitch adds the +40 type-disadvantage contribution exactly
\* when the opponent's active creature is weak (multiplier at least 2) to
\* at least one type of our active creature, and an opponent active that
\* is 4x weak to a type of ours, at full HP with no resisting bench
\* member, is classified HIGH.
SwitchOnTypeDisadvantage ==
    SwitchScored =>
        /\ calc.weak <=> WeakBy(lookupPokemon(state.myActive)[1].types,
                                lookupPokemon(state.opponentActive)[1].types, 2)
        /\ ( /\ WeakBy(lookupPokemon(state.myActive)[1].types,
                       lookupPokemon(state.opponentActive)[1].types, 4)
             /\ Get(state.opponentTeam, state.opponentActive).hp = 100
             /\ ~ResistingBench )
           => calc.result.probability = "HIGH"

\* ---------------------------------------------------------------------
\* C26
\* ---------------------------------------------------------------------
\* predictOpponentMoves has returned at least one candidate
CandidatesReturned ==
    /\ calc.op = "predictOpponentMoves"
    /\ ~calc.threw
    /\ Len(calc.result) >= 1

RECURSIVE SumOfProbabilities(_)
SumOfProbabilities(candidates) ==
    IF candidates = <<>> THEN 0
    ELSE candidates[1].probability + SumOfProbabilities(Tail(candidates))

NonIncreasing(candidates) ==
    \A i \in 1..(Len(candidates) - 1) : candidates[i].probability >= candidates[i + 1].probability

\* C26: whenever predictOpponentMoves returns at least one candidate, the
\* returned probabilities sum to exactly 100 and the list is in
\* non-increasing order of probability.
ProbabilitiesSumTo100 ==
    CandidatesReturned =>
        /\ SumOfProbabilities(calc.result) = 100
        /\ NonIncreasing(calc.result)

\* ---------------------------------------------------------------------
\* C27
\* ---------------------------------------------------------------------
ArchetypeDetected == calc.op = "detectArchetype"

\* the members of the roster the knowledge base knows, with a base stat test
FastMembers ==
    { i \in 1..Len(state.opponentTeam) :
        /\ lookupPokemon(state.opponentTeam[i].name) # <<>>
        /\ lookupPokemon(state.opponentTeam[i].name)[1].baseStats.spe > 100 }
BulkyMembers ==
    { i \in 1..Len(state.opponentTeam) :
        /\ lookupPokemon(state.opponentTeam[i].name) # <<>>
        /\ lookupPokemon(state.opponentTeam[i].name)[1].baseStats.hp
           + lookupPokemon(state.opponentTeam[i].name)[1].baseStats.def
           + lookupPokemon(state.opponentTeam[i].name)[1].baseStats.spd > 280 }
\* the sightings of moves of the roster: <<member, position>>
Sightings ==
    UNION { { <<i, k>> : k \in 1..Len(state.opponentTeam[i].moves) } : i \in 1..Len(state.opponentTeam) }
SetupSightings == { s \in Sightings : isSetupMove(state.opponentTeam[s[1]].moves[s[2]]) }
RecoverySightings == { s \in Sightings : isRecoveryMove(state.opponentTeam[s[1]].moves[s[2]]) }

OffensiveRoster == Cardinality(FastMembers) >= 3 \/ Cardinality(SetupSightings) >= 2
DefensiveRoster == Cardinality(RecoverySightings) >= 3 \/ Cardinality(BulkyMembers) >= 3

\* C27: detectArchetype returns HO iff the roster has at least 3 members
\* with base speed above 100 or at least 2 sighted setup moves; otherwise
\* STALL iff it has at least 3 sighted recovery moves or at least 3 bulky
\* members; otherwise BALANCE; an empty roster is BALANCE.
ArchetypeRule ==
    ArchetypeDetected =>
        /\ calc.result = "HO" <=> OffensiveRoster
        /\ ~OffensiveRoster => (calc.result = "STALL" <=> DefensiveRoster)
        /\ (~OffensiveRoster /\ ~DefensiveRoster) => calc.result = "BALANCE"
        /\ state.opponentTeam = <<>> => calc.result = "BALANCE"

\* a roster that meets an offensive and a defensive minimum has been classified
BothMinimaMet == ArchetypeDetected /\ OffensiveRoster /\ DefensiveRoster

\* ---------------------------------------------------------------------
\* C28
\* ---------------------------------------------------------------------
\* C28 as stated: every roster with at least 3 sighted recovery moves is
\* classified STALL by detectArchetype, whatever else the roster contains.
RecoveryMeansStall ==
    (ArchetypeDetected /\ Cardinality(RecoverySightings) >= 3) => calc.result = "STALL"

\* C28: every roster with at least 3 sighted recovery moves, fewer than 3
\* members with base speed above 100 and fewer than 2 sighted setup moves
\* is classified STALL by detectArchetype; with 3 such members or 2 such
\* moves it is classified HO.
RecoveryMeansStallUnlessOffensive ==
    (ArchetypeDetected /\ Cardinality(RecoverySightings) >= 3) =>
        calc.result = (IF OffensiveRoster THEN "HO" ELSE "STALL")

\* a roster classified STALL for its recovery moves alone
StallByRecoveryAlone ==
    /\ ArchetypeDetected
    /\ Cardinality(RecoverySightings) >= 3
    /\ Cardinality(BulkyMembers) < 3
    /\ ~OffensiveRoster
    /\ calc.result = "STALL"

\* ---------------------------------------------------------------------
\* C29
\* ---------------------------------------------------------------------
\* the opponent's active creature as recommendSwitch reads it
OpposingActive == monOf(state.opponentTeam, state.opponentActive)

\* the signals of a recommendation other than the speed comparison
OffenceSignal(r) ==
    IF ReachesHp(r.bestDmg, OpposingActive) THEN "knock out"
    ELSE IF AtLeast(r.bestDmg, Whole(50)) THEN "significant"
    ELSE IF AtLeast(r.bestDmg, Whole(30)) THEN "decent"
    ELSE "little"
WallSignal(r) == Less(r.maxIncomingDmg, Whole(30))
TypeSignal(r) ==
    IF isWeakToSTAB(lookupPokemon(r.name)[1].types, lookupPokemon(state.opponentActive)[1].types) THEN "weak"
    ELSE IF resistsSTAB(lookupPokemon(r.name)[1].types, lookupPokemon(state.opponentActive)[1].types) THEN "resists"
    ELSE "neither"
EqualSignals(r, s) ==
    /\ OffenceSignal(r) = OffenceSignal(s)
    /\ WallSignal(r) = WallSignal(s)
    /\ TypeSignal(r) = TypeSignal(s)

FasterThanActive(r) == Less(getSpeedRange(state.opponentActive).max, getSpeedRange(r.name).max)
SlowerThanActive(r) == Less(getSpeedRange(r.name).max, getSpeedRange(state.opponentActive).max)
HitHard(r) == AtLeast(r.maxIncomingDmg, Whole(80))

\* recommendSwitch has ranked the bench for a forced switch in which no
\* member can knock out the opposing active creature
ForcedWithoutKnockOut ==
    /\ calc.op = "recommendSwitch"
    /\ calc.isForced
    /\ ~calc.threw
    /\ \A i \in 1..Len(calc.result) : OffenceSignal(calc.result[i]) # "knock out"

\* C29: when the switch is forced and no eligible bench member can knock
\* out the opposing active immediately, recommendSwitch ranks a member that
\* is faster than the opposing active above a slower member with otherwise
\* equal offence and defence signals (by 45 points), and a slower member
\* that would take an incoming hit of at least 80% is ranked lower still
\* (by 75 points below the faster one, 30 below a slower one that is not
\* hit that hard).
FasterRankedAboveSlower ==
    ForcedWithoutKnockOut =>
        \A i, j \in 1..Len(calc.result) :
            EqualSignals(calc.result[i], calc.result[j]) =>
                /\ (FasterThanActive(calc.result[i]) /\ SlowerThanActive(calc.result[j])) =>
                        /\ i < j
                        /\ calc.result[i].score - calc.result[j].score
                             = (IF HitHard(calc.result[j]) THEN 75 ELSE 45)
                /\ ( /\ SlowerThanActive(calc.result[i]) /\ ~HitHard(calc.result[i])
                     /\ SlowerThanActive(calc.result[j]) /\ HitHard(calc.result[j]) ) =>
                        /\ i < j
                        /\ calc.result[i].score - calc.result[j].score = 30

\* a forced ranking of a faster member and a slower one of equal signals
\* that is hit for 80% or more, the slower one first in the roster
FasterAndHardHitSlowerRanked ==
    /\ ForcedWithoutKnockOut
    /\ \E i, j \in 1..Len(calc.result) :
         /\ EqualSignals(calc.result[i], calc.result[j])
         /\ FasterThanActive(calc.result[i])
         /\ SlowerThanActive(calc.result[j]) /\ HitHard(calc.result[j])
         /\ KeyIndex(state.myTeam, calc.result[j].name) < KeyIndex(state.myTeam, calc.result[i].name)

\* ---------------------------------------------------------------------
\* C30
\* ---------------------------------------------------------------------
\* the panel has been updated from the report of the analysis
PanelUpdated == calc.op = "updateRecommendations" /\ report.made /\ ~report.threw

BestMove == IF report.recommendations # <<>> /\ Len(report.recommendations[1]) > 0
            THEN << report.recommendations[1][1] >> ELSE <<>>
BestSwitch == IF Len(report.switchRecommendations) > 0
              THEN << report.switchRecommendations[1] >> ELSE <<>>
SwitchIsPrimary == calc.primary.kind = "switch" /\ calc.primary.switch = BestSwitch[1].name

\* C30: on a non-forced turn with both a best move and a best switch
\* available, the switch is presented as the primary recommendation iff
\* its score exceeds the best move's score by more than the fixed margin
\* of 15; with no move available the best switch is chosen, and on a
\* forced turn the primary recommendation is always the best switch when
\* one exists.
SwitchOnlyBeyondMargin ==
    PanelUpdated =>
        /\ (~report.isForcedSwitch /\ BestMove # <<>> /\ BestSwitch # <<>>) =>
              /\ SwitchIsPrimary <=>
                    Less(Plus(BestMove[1].score, Whole(15)), Whole(BestSwitch[1].score))
              /\ ~SwitchIsPrimary =>
                    (calc.primary.kind = "move" /\ calc.primary.move = BestMove[1].name)
        /\ (~report.isForcedSwitch /\ BestMove = <<>> /\ BestSwitch # <<>>) => SwitchIsPrimary
        /\ (report.isForcedSwitch /\ BestSwitch # <<>>) => SwitchIsPrimary

\* a non-forced turn on which the best switch scores exactly 15 more than
\* the best move, and the move stays primary
SwitchAheadByTheMargin ==
    /\ PanelUpdated
    /\ ~report.isForcedSwitch /\ BestMove # <<>> /\ BestSwitch # <<>>
    /\ Same(Plus(BestMove[1].score, Whole(15)), Whole(BestSwitch[1].score))
    /\ calc.primary.kind = "move"

\* ---------------------------------------------------------------------
\* C31
\* ---------------------------------------------------------------------
\* the region a name carries in either spelling, "" for none
RegionOf(name) ==
    IF includes(name, <<"-","A","l","o","l","a">>) THEN "Alola"
    ELSE IF includes(name, <<"-","G","a","l","a","r">>) THEN "Galar"
    ELSE IF includes(name, <<"-","H","i","s","u","i">>) THEN "Hisui"
    ELSE IF includes(name, <<"-","P","a","l","d","e","a">>) THEN "Paldea"
    ELSE ""
RegionsDiffer == RegionOf(calc.name1) # RegionOf(calc.name2)
AllKeys(st) == Keys(st.myTeam) \cup Keys(st.opponentTeam)

\* C31: isSamePokemon(a, b) is false whenever exactly one of the two names
\* carries a regional suffix (Alola, Galar, Hisui, Paldea, in either
\* spelling) or both carry different regional suffixes; consequently a
\* sighting of one is never resolved to an entry of the other (findInTeam
\* and ensureTeamMember give no key of another region), never upgraded
\* into it and never relocated as it (no key leaves the rosters).
RegionalFormsKeptApart ==
    RegionsDiffer =>
        /\ calc.op = "isSamePokemon" => ~calc.result
        /\ lastObs.op = "ensureTeamMember" =>
              /\ lastObs.found # Null => RegionOf(lastObs.found) = RegionOf(lastObs.input)
              /\ lastObs.ret # Null => RegionOf(lastObs.ret) = RegionOf(lastObs.input)
              /\ AllKeys(prev) \subseteq AllKeys(state)
              /\ \A sel \in Sels : findInTeam(TeamOf(state, sel), lastObs.input) \in {Null, lastObs.input}

\* a regional form and the plain form, compared and both sighted, hold an
\* entry each in the same roster
RegionalAndPlainListed ==
    /\ calc.op = "isSamePokemon"
    /\ calc.name1 = Raichu /\ calc.name2 = RaichuAlolan
    /\ Keys(state.myTeam) = {Raichu, RaichuAlola}
    /\ lastObs.op = "ensureTeamMember" /\ lastObs.input = RaichuAlola

\* ---------------------------------------------------------------------
\* C32
\* ---------------------------------------------------------------------
SwitchesReturned == calc.op = "recommendSwitch" /\ ~calc.threw

MovesRanked ==
    /\ calc.op = "updateRecommendations" /\ report.made /\ ~report.threw
    /\ report.myActive # Null /\ report.opponentActive # Null
    /\ report.recommendations # <<>>

\* the types of the opposing active creature as recommendMove reads them
OpposingTypes ==
    IF monOf(state.opponentTeam, state.opponentActive) # <<>>
    THEN monOf(state.opponentTeam, state.opponentActive)[1].types
    ELSE dataOrDefault(state.opponentActive)[1].types

\* by the type chart the opposing active creature is immune to the move
ImmuneTo(moveName) ==
    /\ ~isNoDamage(moveDataOf(moveName))
    /\ Same(chartEffectiveness(moveDataOf(moveName).type, OpposingTypes), Whole(0))

\* C33: in recommendMove, every damaging move to which the opposing active
\* is immune (type-chart multiplier 0) gets a score of exactly -50
\* regardless of knockout, pivot, priority or hazard bonuses, and is
\* therefore ranked after every move that is not immune.
ImmuneMovesScoreMinus50 ==
    MovesRanked =>
        \A i \in 1..Len(report.recommendations[1]) :
            ImmuneTo(report.recommendations[1][i].name) =>
                /\ Same(report.recommendations[1][i].score, Whole(-50))
                /\ \A j \in 1..Len(report.recommendations[1]) :
                      ~ImmuneTo(report.recommendations[1][j].name) => j < i

\* ---------------------------------------------------------------------
\* C34: however many initialize callbacks are pending at once (from the
\* poll tick, the navigation observer and the bootstrap timeout), the
\* overlay is created at most once and the scraper is started at most
\* once between two teardowns.
\* ---------------------------------------------------------------------
SingleInitialization ==
    content.loaded => content.creates <= 1 /\ content.starts <= 1

\* a callback found the script initialized by an earlier one and returned,
\* while yet another was still pending
SecondCallbackReturned ==
    /\ content.loaded
    /\ lastObs.op = "initialize"
    /\ ~lastObs.body
    /\ content.initialized
    /\ content.creates = 1
    /\ content.starts = 1
    /\ content.timeouts # <<>>

\* ---------------------------------------------------------------------
\* C40: the body of initialize never executes at a moment when no battle
\* is active: a callback scheduled while a battle was active does nothing
\* if the battle has ended before it fires.
\* ---------------------------------------------------------------------
InitializeBodyOnlyInBattle ==
    lastObs.op = "initialize" /\ lastObs.body => lastObs.battle

\* ---------------------------------------------------------------------
\* C35: myActive and opponentActive are each either null or a key of
\* their own team, also after a creation refused on a full team, after a
\* key was upgraded and after an entry was moved to the other team.
\* ---------------------------------------------------------------------
ActivePointersResolve ==
    /\ state.myActive = Null \/ HasKey(state.myTeam, state.myActive)
    /\ state.opponentActive = Null \/ HasKey(state.opponentTeam, state.opponentActive)

\* ---------------------------------------------------------------------
\* C36: in every reachable state an entry whose status is fainted ('fnt')
\* has hp = 0: no later stat bar, tooltip or log observation leaves an
\* entry fainted with hp above 0.
\* ---------------------------------------------------------------------
FaintedEntriesHaveNoHp ==
    /\ \A i \in 1..Len(state.myTeam) :
          state.myTeam[i].status = "fnt" => state.myTeam[i].hp = 0
    /\ \A i \in 1..Len(state.opponentTeam) :
          state.opponentTeam[i].status = "fnt" => state.opponentTeam[i].hp = 0

\* ---------------------------------------------------------------------
\* C37: in every reachable state no two distinct keys of myTeam and
\* opponentTeam together denote the same creature under isSamePokemon:
\* a creature never has two roster entries.
\* ---------------------------------------------------------------------
OneEntryPerCreature ==
    \A key1 \in Keys(state.myTeam) \cup Keys(state.opponentTeam) :
        \A key2 \in Keys(state.myTeam) \cup Keys(state.opponentTeam) :
            key1 # key2 => ~isSamePokemon(key1, key2)

\* a sighting under another name of the same creature was resolved to the
\* entry the rosters already had, and the rosters still hold one entry
FormSightingKeptOneEntry ==
    /\ lastObs.op = "ensureTeamMember"
    /\ lastObs.found # Null
    /\ lastObs.found # lastObs.input
    /\ isSamePokemon(lastObs.found, lastObs.input)
    /\ Cardinality(AllKeys(state)) = 1

\* ---------------------------------------------------------------------
\* C38: a 'Poison spikes were scattered' line increments only the
\* toxicSpikes counter of the affected side; the spikes counters of both
\* sides are unchanged by it.
\* ---------------------------------------------------------------------
OnlyPoisonSpikesRead ==
    /\ lastObs.op \in {"scan", "log"}
    /\ lastObs.input.lines # <<>>
    /\ \A i \in 1..Len(lastObs.input.lines) : lastObs.input.lines[i].tpl = "toxicSpikes"

PoisonSpikesLeaveSpikes ==
    OnlyPoisonSpikesRead =>
        /\ state.field.myHazards.spikes = prev.field.myHazards.spikes
        /\ state.field.opponentHazards.spikes = prev.field.opponentHazards.spikes
        /\ \/ state.field.myHazards.toxicSpikes = prev.field.myHazards.toxicSpikes
           \/ state.field.opponentHazards.toxicSpikes = prev.field.opponentHazards.toxicSpikes

\* ---------------------------------------------------------------------
\* C39: in predictOpponentMoves a candidate move to which our active
\* creature is immune (effectiveness 0) receives the 50-point immune
\* penalty, not the 20-point resisted penalty.
\* ---------------------------------------------------------------------
CandidatesScored ==
    /\ calc.op = "predictOpponentMoves" /\ ~calc.threw
    /\ calc.scored # <<>>

\* the types of our active creature as predictOpponentMoves reads them
OurTypes ==
    IF monOf(state.myTeam, state.myActive) # <<>>
    THEN monOf(state.myTeam, state.myActive)[1].types
    ELSE IF lookupPokemon(state.myActive) # <<>> THEN lookupPokemon(state.myActive)[1].types
    ELSE <<>>

\* by the type chart our active creature is immune to the move
ImmuneToCandidate(moveName) ==
    /\ ~isNoDamage(moveDataOf(moveName))
    /\ Same(chartEffectiveness(moveDataOf(moveName).type, OurTypes), Whole(0))

ImmuneCandidatesLoseFifty ==
    CandidatesScored =>
        \A i \in 1..Len(calc.scored) :
            ImmuneToCandidate(calc.scored[i].name) => calc.scored[i].points = -50
====
